---- MODULE Spec2Model ----
(***************************************************************************)
(* Model of the verba-mentor tutoring bot: the User entity               *)
(* (src/domain/entities/user.py), the user-management and conversation    *)
(* use cases (src/application/use_cases) and the user store               *)
(* (src/infrastructure/repositories/sqlalchemy_user_repository.py).       *)
(*                                                                         *)
(* The specifications share the variables:                                *)
(*   SpecHistory   the history methods of one in-memory User              *)
(*   SpecProgress  the progress and level methods of one in-memory User   *)
(*   Spec          the use cases run as concurrent tasks over the store   *)
(*   SpecTurn      the conversation use cases and the AI facade, one call  *)
(*                 at a time, with the calls they make on the store and   *)
(*                 the providers                                          *)
(*   SpecManage    SpecTurn with the user-management use cases and the    *)
(*                 audio step of the pronounce command                    *)
(*   SpecSession   one practice session and the messages that follow it   *)
(*   SpecEvent     the Discord event handlers over a store and providers  *)
(*                 that can fail                                          *)
(*                                                                         *)
(* Scores are Python floats in the source.  They are modelled as exact    *)
(* decimal fractions [n, e] standing for n / 10^e, kept normalised, so    *)
(* the weighted average is exact arithmetic (IEEE rounding, of the order  *)
(* of 1e-16, is below the model's resolution).                            *)
(***************************************************************************)
EXTENDS Integers, Sequences, FiniteSets, TLC

VARIABLES
    user,       \* SpecHistory / SpecProgress: the in-memory User object
    initial,    \* the User as it was constructed; in Spec the store at the start (ghost)
    prev,       \* the User before the last method call (ghost)
    call,       \* the last method call: its name, arguments and result (ghost)
    sums,       \* sum of the counter deltas passed to update_progress (ghost)
    appended,   \* entries appended since the last reset, oldest first (ghost)
    nCalls,     \* number of method calls / operations started so far
    clock,      \* datetime.now()
    store,      \* Spec: the users table, one row per id
    tasks,      \* Spec: the running coroutines, one per inbound event
    nextId,     \* Spec: the next uuid4 to be drawn
    io          \* SpecTurn: the calls the running operation made to the store and the
                \* AI providers, oldest first

vars == <<user, initial, prev, call, sums, appended, nCalls, clock, store, tasks, nextId, io>>

----------------------------------------------------------------------------
(* Bounds of the model *)

MaxAppends == 3
MaxCalls == 2
NumTasks == 2

(* Program constants *)

MaxHistory == 20
LessonsForIntermediate == 10
LessonsForAdvanced == 25

----------------------------------------------------------------------------
(* Exact decimal fractions: [n |-> numerator, e |-> exponent] is n / 10^e *)

RECURSIVE Pow10(_)
Pow10(k) == IF k <= 0 THEN 1 ELSE 10 * Pow10(k - 1)

RECURSIVE Norm(_)
Norm(s) ==
    IF s.n = 0 THEN [n |-> 0, e |-> 0]
    ELSE IF s.e > 0 /\ s.n % 10 = 0 THEN Norm([n |-> s.n \div 10, e |-> s.e - 1])
    ELSE s

Dec(n, e) == Norm([n |-> n, e |-> e])

Max(a, b) == IF a >= b THEN a ELSE b

\* s scaled to exponent E >= s.e
Scaled(s, E) == s.n * Pow10(E - s.e)

ScoreGeq(a, b) ==
    LET E == Max(a.e, b.e) IN Scaled(a, E) >= Scaled(b, E)

ScoreGt(a, b) ==
    LET E == Max(a.e, b.e) IN Scaled(a, E) > Scaled(b, E)

Zero == Dec(0, 0)
One == Dec(1, 0)
IntermediateScore == Dec(7, 1)
AdvancedScore == Dec(8, 1)

\* stored * 0.7 + sample * 0.3
WeightedAverageSwapped(stored, sample) ==
    LET E == Max(stored.e, sample.e) + 1
    IN  Dec(3 * Scaled(stored, E - 1) + 7 * Scaled(sample, E - 1), E)
WeightedAverage(stored, sample) ==
    LET E == Max(stored.e, sample.e) + 1
    IN  Dec(7 * Scaled(stored, E - 1) + 3 * Scaled(sample, E - 1), E)

----------------------------------------------------------------------------
(* The User entity *)

BEGINNER == "beginner"
INTERMEDIATE == "intermediate"
ADVANCED == "advanced"
ProficiencyLevel == {BEGINNER, INTERMEDIATE, ADVANCED}

Rank(level) ==
    CASE level = BEGINNER -> 0
      [] level = INTERMEDIATE -> 1
      [] level = ADVANCED -> 2

NoTime == 0
NoTopic == "none"
NoUser == [id |-> 0]

UserProgress(now) ==
    [vocabulary_mastered |-> 0,
     lessons_completed |-> 0,
     practice_sessions |-> 0,
     pronunciation_score |-> Zero,
     grammar_accuracy |-> Zero,
     last_active |-> now,
     completed_topics |-> <<>>]

User(id, discord_id, username, level, progress, now) ==
    [id |-> id,
     discord_id |-> discord_id,
     username |-> username,
     proficiency_level |-> level,
     progress |-> progress,
     conversation_history |-> <<>>,
     created_at |-> now,
     last_interaction |-> NoTime]

update_last_interaction_of_progress_only(u, now) == [u EXCEPT !.progress.last_active = now]
update_last_interaction(u, now) ==
    [u EXCEPT !.last_interaction = now, !.progress.last_active = now]

InSeq(x, s) == \E i \in 1..Len(s) : s[i] = x

\* d: [vocabulary_mastered, lessons_completed, practice_sessions,
\*     pronunciation_score, grammar_accuracy, completed_topic]
update_progress_overwrites(u, d) ==
    [u EXCEPT
        !.progress.vocabulary_mastered = d.vocabulary_mastered,
        !.progress.lessons_completed = d.lessons_completed,
        !.progress.practice_sessions = d.practice_sessions]
update_progress(u, d) ==
    LET p == u.progress IN
    [u EXCEPT !.progress =
        [p EXCEPT
            !.vocabulary_mastered = p.vocabulary_mastered + d.vocabulary_mastered,
            !.lessons_completed = p.lessons_completed + d.lessons_completed,
            !.practice_sessions = p.practice_sessions + d.practice_sessions,
            !.pronunciation_score =
                IF ScoreGt(d.pronunciation_score, Zero)
                THEN WeightedAverage(p.pronunciation_score, d.pronunciation_score)
                ELSE p.pronunciation_score,
            !.grammar_accuracy =
                IF ScoreGt(d.grammar_accuracy, Zero)
                THEN WeightedAverage(p.grammar_accuracy, d.grammar_accuracy)
                ELSE p.grammar_accuracy,
            !.completed_topics =
                IF d.completed_topic # NoTopic /\ ~InSeq(d.completed_topic, p.completed_topics)
                THEN Append(p.completed_topics, d.completed_topic)
                ELSE p.completed_topics]]

should_level_up_strict(u) ==
    IF u.proficiency_level = BEGINNER
    THEN /\ u.progress.lessons_completed > LessonsForIntermediate
         /\ ScoreGeq(u.progress.pronunciation_score, IntermediateScore)
         /\ ScoreGeq(u.progress.grammar_accuracy, IntermediateScore)
    ELSE IF u.proficiency_level = INTERMEDIATE
    THEN /\ u.progress.lessons_completed > LessonsForAdvanced
         /\ ScoreGeq(u.progress.pronunciation_score, AdvancedScore)
         /\ ScoreGeq(u.progress.grammar_accuracy, AdvancedScore)
    ELSE FALSE
should_level_up(u) ==
    IF u.proficiency_level = BEGINNER
    THEN /\ u.progress.lessons_completed >= LessonsForIntermediate
         /\ ScoreGeq(u.progress.pronunciation_score, IntermediateScore)
         /\ ScoreGeq(u.progress.grammar_accuracy, IntermediateScore)
    ELSE IF u.proficiency_level = INTERMEDIATE
    THEN /\ u.progress.lessons_completed >= LessonsForAdvanced
         /\ ScoreGeq(u.progress.pronunciation_score, AdvancedScore)
         /\ ScoreGeq(u.progress.grammar_accuracy, AdvancedScore)
    ELSE FALSE

\* level_up: the pair <<user afterwards, returned bool>>
level_up_to_highest(u) ==
    IF ~should_level_up(u) THEN <<u, FALSE>>
    ELSE IF u.proficiency_level = BEGINNER
    THEN <<[u EXCEPT !.proficiency_level =
                IF /\ u.progress.lessons_completed >= LessonsForAdvanced
                   /\ ScoreGeq(u.progress.pronunciation_score, AdvancedScore)
                   /\ ScoreGeq(u.progress.grammar_accuracy, AdvancedScore)
                THEN ADVANCED ELSE INTERMEDIATE], TRUE>>
    ELSE IF u.proficiency_level = INTERMEDIATE
    THEN <<[u EXCEPT !.proficiency_level = ADVANCED], TRUE>>
    ELSE <<u, FALSE>>
level_up(u) ==
    IF ~should_level_up(u) THEN <<u, FALSE>>
    ELSE IF u.proficiency_level = BEGINNER
    THEN <<[u EXCEPT !.proficiency_level = INTERMEDIATE], TRUE>>
    ELSE IF u.proficiency_level = INTERMEDIATE
    THEN <<[u EXCEPT !.proficiency_level = ADVANCED], TRUE>>
    ELSE <<u, FALSE>>

Entry(role, content, now) == [role |-> role, content |-> content, timestamp |-> now]

\* s[-k:]
LastN(s, k) == IF Len(s) <= k THEN s ELSE SubSeq(s, Len(s) - k + 1, Len(s))

add_to_conversation_history_keeps_oldest(u, role, content, now) ==
    LET h == Append(u.conversation_history, Entry(role, content, now))
    IN  [u EXCEPT !.conversation_history =
            IF Len(h) > MaxHistory THEN SubSeq(h, 1, MaxHistory) ELSE h]
add_to_conversation_history_no_limit(u, role, content, now) ==
    [u EXCEPT !.conversation_history = Append(u.conversation_history, Entry(role, content, now))]
add_to_conversation_history(u, role, content, now) ==
    LET h == Append(u.conversation_history, Entry(role, content, now))
    IN  [u EXCEPT !.conversation_history =
            IF Len(h) > MaxHistory THEN LastN(h, MaxHistory) ELSE h]

----------------------------------------------------------------------------
(* Values the unused variables of a specification keep *)

NoCall == [op |-> "none"]
NoSums == [vocabulary_mastered |-> 0, lessons_completed |-> 0, practice_sessions |-> 0]

----------------------------------------------------------------------------
(* SpecHistory: the conversation history of one in-memory User.  Init draws *)
(* a history the program can have built (alternating user and assistant     *)
(* turns, none evicted yet); the actions append entries and reset.          *)

Roles == {"system", "user", "assistant"}
Contents == {"hello", "how are you"}
InitLengths == {0, 5, 18, 19, 20}

SeedHistory(n) ==
    [i \in 1..n |-> Entry(IF i % 2 = 1 THEN "user" ELSE "assistant", "hello", i)]

HistoryInit ==
    /\ \E n \in InitLengths :
          /\ user = [User("u1", "d1", "alice", BEGINNER, UserProgress(1), 1)
                        EXCEPT !.conversation_history = SeedHistory(n)]
          /\ appended = SeedHistory(n)
          /\ clock = n + 1
    /\ initial = user
    /\ prev = user
    /\ call = NoCall
    /\ sums = NoSums
    /\ nCalls = 0
    /\ store = <<>>
    /\ tasks = <<>>
    /\ nextId = 1
    /\ io = <<>>

\* user.add_to_conversation_history(role, content)
HistoryAppend ==
    /\ nCalls < MaxAppends
    /\ \E role \in Roles, content \in Contents :
          /\ user' = add_to_conversation_history(user, role, content, clock)
          /\ appended' = Append(appended, Entry(role, content, clock))
          /\ call' = [op |-> "add_to_conversation_history", role |-> role, content |-> content]
    /\ prev' = user
    /\ clock' = clock + 1
    /\ nCalls' = nCalls + 1
    /\ UNCHANGED <<initial, sums, store, tasks, nextId, io>>

\* user.conversation_history = []   (the session reset of start_practice_session)
clear_history(u) == [u EXCEPT !.conversation_history = <<>>]

HistoryReset ==
    /\ nCalls < MaxAppends
    /\ user' = clear_history(user)
    /\ appended' = <<>>
    /\ call' = [op |-> "clear_history"]
    /\ prev' = user
    /\ nCalls' = nCalls + 1
    /\ UNCHANGED <<initial, sums, clock, store, tasks, nextId, io>>

HistoryNext == HistoryAppend \/ HistoryReset

SpecHistory == HistoryInit /\ [][HistoryNext]_vars

----------------------------------------------------------------------------
(* SpecProgress: update_progress, should_level_up and level_up of one       *)
(* in-memory User.  Init draws the tier and the Progress values.            *)

InitLessons == {0, 9, 10, 24, 25}
InitScores == {Zero, Dec(5, 1), IntermediateScore, AdvancedScore}
Topics == {"verbs"}

Delta(v, l, s, p, g, t) ==
    [vocabulary_mastered |-> v, lessons_completed |-> l, practice_sessions |-> s,
     pronunciation_score |-> p, grammar_accuracy |-> g, completed_topic |-> t]

NoDelta == Delta(0, 0, 0, Zero, Zero, NoTopic)

Deltas ==
    {NoDelta,
     Delta(2, 0, 0, Zero, Zero, NoTopic),
     Delta(0, 1, 0, Zero, Zero, NoTopic),
     Delta(0, 0, 1, Zero, Zero, NoTopic),
     Delta(1, 15, 1, One, One, "verbs"),
     Delta(0, 0, 0, One, Zero, NoTopic),
     Delta(0, 0, 0, Zero, One, NoTopic),
     Delta(0, 0, 0, Dec(5, 1), Dec(9, 1), NoTopic),
     Delta(0, 0, 0, Zero, Zero, "verbs")}

ProgressInit ==
    /\ \E level \in ProficiencyLevel, l \in InitLessons, p \in InitScores, g \in InitScores :
          user = User("u1", "d1", "alice", level,
                      [UserProgress(1) EXCEPT !.lessons_completed = l,
                                              !.pronunciation_score = p,
                                              !.grammar_accuracy = g], 1)
    /\ initial = user
    /\ prev = user
    /\ call = NoCall
    /\ sums = NoSums
    /\ appended = <<>>
    /\ nCalls = 0
    /\ clock = 2
    /\ store = <<>>
    /\ tasks = <<>>
    /\ nextId = 1
    /\ io = <<>>

\* user.update_progress(**d)
ProgressUpdate ==
    /\ nCalls < MaxCalls
    /\ \E d \in Deltas :
          /\ user' = update_progress(user, d)
          /\ call' = [op |-> "update_progress", delta |-> d]
          /\ sums' = [vocabulary_mastered |-> sums.vocabulary_mastered + d.vocabulary_mastered,
                      lessons_completed |-> sums.lessons_completed + d.lessons_completed,
                      practice_sessions |-> sums.practice_sessions + d.practice_sessions]
    /\ prev' = user
    /\ nCalls' = nCalls + 1
    /\ UNCHANGED <<initial, appended, clock, store, tasks, nextId, io>>

\* user.level_up()
ProgressLevelUp ==
    /\ nCalls < MaxCalls
    /\ user' = level_up(user)[1]
    /\ call' = [op |-> "level_up", result |-> level_up(user)[2]]
    /\ prev' = user
    /\ nCalls' = nCalls + 1
    /\ UNCHANGED <<initial, sums, appended, clock, store, tasks, nextId, io>>

ProgressNext == ProgressUpdate \/ ProgressLevelUp

SpecProgress == ProgressInit /\ [][ProgressNext]_vars

----------------------------------------------------------------------------
(* Spec: the use cases run as tasks over the user store.  A task is one     *)
(* coroutine; it is suspended at each await (a repository call, a provider  *)
(* call) and other tasks may run there.  An action is the code from the     *)
(* completion of one await to the start of the next.                        *)

\* one task per inbound event; each runs one operation
Tasks == 1..NumTasks

UnknownId == 0
DiscordIds == {"d1", "d2"}
\* the display name an event from each account carries
DisplayName(d) == IF d = "d1" THEN "al" ELSE "bob"
LevelStrings == ProficiencyLevel \cup {"expert"}
Texts == {<<"hi">>}
HistoryRoles == {"user", "assistant"}
Replies == {<<"reply">>}
SessionTopics == {NoTopic, "verbs"}
NoPattern == <<>>
Patterns == {NoPattern, <<"pattern">>}
UserResponses == {<<"answer">>}
SystemDeltas ==
    {Delta(0, 1, 0, Zero, Zero, NoTopic),
     Delta(0, 0, 0, One, Zero, NoTopic)}
\* what evaluate_response returns: with or without a grammar_score key
NoScore == [n |-> -1, e |-> 0]
Evaluations == {[grammar_score |-> Dec(9, 1)], [grammar_score |-> NoScore]}

NotRegistered == <<"Desculpe, nao consegui encontrar seu registro">>
UserNotFound == [error |-> "Usuario nao encontrado"]
InsufficientContext == [error |-> "Nao foi possivel avaliar a resposta sem contexto adequado"]
HandlerError == <<"Ocorreu um erro ao processar sua mensagem">>
None == <<"None">>

(* The repository *)

get_by_id_or_any(st, id) ==
    IF id \in DOMAIN st THEN st[id]
    ELSE IF DOMAIN st # {} THEN st[CHOOSE k \in DOMAIN st : TRUE] ELSE NoUser
get_by_id(st, id) == IF id \in DOMAIN st THEN st[id] ELSE NoUser

get_by_discord_id(st, d) ==
    IF \E id \in DOMAIN st : st[id].discord_id = d
    THEN st[CHOOSE id \in DOMAIN st : st[id].discord_id = d]
    ELSE NoUser

\* the commit of save fails on the unique index of discord_id
IntegrityError(st, u) ==
    /\ u.id \notin DOMAIN st
    /\ \E id \in DOMAIN st : st[id].discord_id = u.discord_id

save_keeps_existing_row(st, u) == IF u.id \in DOMAIN st THEN st ELSE (u.id :> u) @@ st
save(st, u) == (u.id :> u) @@ st

(* The prompts *)

_get_system_prompt(level) == <<"system_base_prompt", level>>

_get_practice_prompt(level, topic) == <<"practice_base_prompt", topic, level>>

combined_prompt(level, topic) == <<"initial_instructions">> \o _get_practice_prompt(level, topic)

intro_prompt(topic) ==
    <<"Nova sessao de tutoria", IF topic # NoTopic THEN topic ELSE "gramatica inglesa">>

Message(role, content) == [role |-> role, content |-> content]

_prepare_context_for_ai_without_prompt(u) ==
    [i \in 1..Len(u.conversation_history) |->
        Message(u.conversation_history[i].role, u.conversation_history[i].content)]
_prepare_context_for_ai(u) ==
    <<Message("system", _get_system_prompt(u.proficiency_level))>> \o
    [i \in 1..Len(u.conversation_history) |->
        Message(u.conversation_history[i].role, u.conversation_history[i].content)]

(* Tasks *)

IdleTask ==
    [pc |-> "idle", op |-> "none", discord_id |-> "none", username |-> "none",
     user_id |-> UnknownId, arg |-> None, u |-> NoUser, read |-> NoUser,
     messages |-> <<>>, reg |-> "none", result |-> None]

SeedUser(id, d, level, l, p, g, n) ==
    [User(id, d, "alice", level,
          [UserProgress(1) EXCEPT !.lessons_completed = l,
                                  !.pronunciation_score = p,
                                  !.grammar_accuracy = g], 1)
        EXCEPT !.conversation_history = SeedHistory(n),
               !.last_interaction = IF n = 0 THEN NoTime ELSE n]

\* the stores the runs start from: empty, or holding one registered user
SeedStores ==
    {<<>>,
     1 :> SeedUser(1, "d1", BEGINNER, 9, IntermediateScore, IntermediateScore, 5),
     1 :> SeedUser(1, "d1", INTERMEDIATE, 24, AdvancedScore, AdvancedScore, 19)}

Init ==
    /\ store \in SeedStores
    /\ tasks = [t \in Tasks |-> IdleTask]
    /\ nextId = 2
    /\ io = <<>>
    /\ clock = 21
    /\ nCalls = 0
    /\ user = NoUser
    /\ initial = store
    /\ prev = NoUser
    /\ call = NoCall
    /\ sums = NoSums
    /\ appended = <<>>

Ghosts == <<user, initial, prev, call, sums, appended, io>>

UserIds == DOMAIN store \cup {UnknownId}

\* the arguments drawn for a call: all of S for a stored user, one of them for an
\* id that has no record (the call returns at the lookup, whatever they are)
ArgsFor(id, S) == IF id = UnknownId THEN {CHOOSE x \in S : TRUE} ELSE S

\* an event arrives and its task starts (tasks are started in index order); a
\* task's start and its first repository call are one step, as nothing of the
\* start is visible to other tasks
CanBegin(t) ==
    /\ tasks[t].pc = "idle"
    /\ IF t = 1 THEN TRUE ELSE tasks[t - 1].pc # "idle"

Call(op, d, id, arg) ==
    [IdleTask EXCEPT !.op = op, !.discord_id = d,
                     !.username = IF d = "none" THEN "none" ELSE DisplayName(d),
                     !.user_id = id, !.arg = arg]

Step(t, rec) == tasks' = [tasks EXCEPT ![t] = rec]

\* the coroutine has returned (or raised): its locals are gone
Returned(me, pc, reg, result) ==
    [IdleTask EXCEPT !.pc = pc, !.op = me.op, !.discord_id = me.discord_id,
                     !.username = me.username, !.user_id = me.user_id,
                     !.arg = me.arg, !.reg = reg, !.result = result]

Done(me, result) == Returned(me, "done", me.reg, result)

(* UserManagementUseCase.register_user, and the handlers' get-then-register *)

\* how a task goes on once register_user has returned user r
AfterRegister(me, r, outcome) ==
    IF me.op = "bot_message"
    THEN [me EXCEPT !.pc = "pm_get", !.user_id = r.id, !.reg = outcome, !.u = NoUser]
    ELSE Returned(me, "done", outcome, r)

\* existing_user = await get_by_discord_id(discord_id); return it, or build the new User
RegisterGet_always_creates(t, me) ==
    /\ Step(t, [me EXCEPT !.pc = "register_save",
                          !.u = User(nextId, me.discord_id, me.username,
                                     BEGINNER, UserProgress(clock), clock)])
    /\ nextId' = nextId + 1
    /\ clock' = clock + 1
RegisterGet(t, me) ==
    LET existing == get_by_discord_id(store, me.discord_id) IN
    IF existing # NoUser
    THEN /\ Step(t, AfterRegister(me, existing, "existing"))
         /\ UNCHANGED <<nextId, clock>>
    ELSE /\ Step(t, [me EXCEPT !.pc = "register_save",
                               !.u = User(nextId, me.discord_id, me.username,
                                          BEGINNER, UserProgress(clock), clock)])
         /\ nextId' = nextId + 1
         /\ clock' = clock + 1

RegisterUser(t) ==
    /\ CanBegin(t)
    /\ \E d \in DiscordIds : RegisterGet(t, Call("register_user", d, UnknownId, None))
    /\ UNCHANGED <<store, nCalls, Ghosts>>

\* _handle_bot_message: user = await get_user_by_discord_id(...)
BotMessage(t) ==
    /\ CanBegin(t)
    /\ \E d \in DiscordIds, text \in Texts :
          LET me == Call("bot_message", d, UnknownId, text)
              existing == get_by_discord_id(store, d)
          IN  IF existing # NoUser
              THEN Step(t, [me EXCEPT !.pc = "pm_get", !.user_id = existing.id])
              ELSE Step(t, [me EXCEPT !.pc = "register_get"])
    /\ UNCHANGED <<store, nextId, clock, nCalls, Ghosts>>

\* _handle_bot_message: if not user: user = await register_user(...)
BotRegister(t) ==
    /\ tasks[t].pc = "register_get"
    /\ RegisterGet(t, tasks[t])
    /\ UNCHANGED <<store, nCalls, Ghosts>>

\* return await self.user_repository.save(new_user)
RegisterSave(t) ==
    /\ tasks[t].pc = "register_save"
    /\ IF IntegrityError(store, tasks[t].u)
       THEN /\ IF tasks[t].op = "bot_message"
               THEN Step(t, Returned(tasks[t], "done", "IntegrityError", HandlerError))
               ELSE Step(t, Returned(tasks[t], "failed", "IntegrityError", None))
            /\ UNCHANGED store
       ELSE /\ store' = save(store, tasks[t].u)
            /\ Step(t, AfterRegister(tasks[t], tasks[t].u, "created"))
    /\ UNCHANGED <<nextId, clock, nCalls, Ghosts>>

(* UserManagementUseCase.update_user_level *)

\* user = await get_by_id(user_id); user.proficiency_level = ProficiencyLevel(new_level)
UpdateLevel(t) ==
    /\ CanBegin(t)
    /\ \E id \in UserIds : \E level \in ArgsFor(id, LevelStrings) :
          LET me == Call("update_user_level", "none", id, level)
              u == get_by_id(store, id)
          IN  IF u = NoUser THEN Step(t, Done(me, None))
              ELSE IF level \notin ProficiencyLevel THEN Step(t, Done(me, None))
              ELSE Step(t, [me EXCEPT !.pc = "level_save", !.read = u,
                                      !.u = [u EXCEPT !.proficiency_level = level]])
    /\ UNCHANGED <<store, nextId, clock, nCalls, Ghosts>>

\* return await self.user_repository.save(user)
UpdateLevelSave(t) ==
    /\ tasks[t].pc = "level_save"
    /\ store' = save(store, tasks[t].u)
    /\ Step(t, Done(tasks[t], tasks[t].u))
    /\ UNCHANGED <<nextId, clock, nCalls, Ghosts>>

(* UserManagementUseCase.update_user_progress *)

progress_then_promote_to_top(u, d) ==
    LET v == update_progress(u, d)
    IN  IF should_level_up(v) THEN [v EXCEPT !.proficiency_level = ADVANCED] ELSE v
progress_then_level_up(u, d) ==
    LET v == update_progress(u, d)
    IN  IF should_level_up(v) THEN level_up(v)[1] ELSE v

UpdateProgress(t) ==
    /\ CanBegin(t)
    /\ \E id \in UserIds : \E d \in ArgsFor(id, SystemDeltas) :
          LET me == Call("update_user_progress", "none", id, d)
              u == get_by_id(store, id)
          IN  IF u = NoUser THEN Step(t, Done(me, None))
              ELSE Step(t, [me EXCEPT !.pc = "progress_save", !.read = u,
                                      !.u = progress_then_level_up(u, d)])
    /\ UNCHANGED <<store, nextId, clock, nCalls, Ghosts>>

\* return await self.user_repository.save(user)
UpdateProgressSave(t) ==
    /\ tasks[t].pc = "progress_save"
    /\ store' = save(store, tasks[t].u)
    /\ Step(t, Done(tasks[t], tasks[t].u))
    /\ UNCHANGED <<nextId, clock, nCalls, Ghosts>>

(* UserManagementUseCase.add_to_conversation_history *)

AddHistory(t) ==
    /\ CanBegin(t)
    /\ \E id \in UserIds : \E role \in ArgsFor(id, HistoryRoles), content \in Texts :
          LET me == Call("add_to_conversation_history", "none", id, Message(role, content))
              u == get_by_id(store, id)
          IN  IF u = NoUser
              THEN /\ Step(t, Done(me, FALSE))
                   /\ UNCHANGED clock
              ELSE /\ Step(t, [me EXCEPT
                            !.pc = "history_save", !.read = u,
                            !.u = update_last_interaction(
                                     add_to_conversation_history(u, role, content, clock),
                                     clock)])
                   /\ clock' = clock + 1
    /\ UNCHANGED <<store, nextId, nCalls, Ghosts>>

AddHistorySave(t) ==
    /\ tasks[t].pc = "history_save"
    /\ store' = save(store, tasks[t].u)
    /\ Step(t, Done(tasks[t], TRUE))
    /\ UNCHANGED <<nextId, clock, nCalls, Ghosts>>

(* ConversationHandlerUseCase.process_message *)

\* user = await get_by_id(user_id); append the user turn, touch, build the context
ProcessMessageGet(t, me) ==
    LET u == get_by_id(store, me.user_id) IN
    IF u = NoUser
    THEN /\ Step(t, Done(me, NotRegistered))
         /\ UNCHANGED clock
    ELSE LET v == update_last_interaction(
                     add_to_conversation_history(u, "user", me.arg, clock), clock)
         IN  /\ Step(t, [me EXCEPT !.pc = "pm_ai", !.read = u, !.u = v,
                                   !.messages = _prepare_context_for_ai(v)])
             /\ clock' = clock + 1

ProcessMessage(t) ==
    /\ CanBegin(t)
    /\ \E id \in UserIds, text \in Texts :
          ProcessMessageGet(t, Call("process_message", "none", id, text))
    /\ UNCHANGED <<store, nextId, nCalls, Ghosts>>

\* _handle_bot_message: response = await process_message(user.id, content)
BotProcessMessage(t) ==
    /\ tasks[t].pc = "pm_get"
    /\ ProcessMessageGet(t, tasks[t])
    /\ UNCHANGED <<store, nextId, nCalls, Ghosts>>

\* response = await generate_response(...); append the assistant turn
ProcessMessageReply(t) ==
    /\ tasks[t].pc = "pm_ai"
    /\ \E response \in Replies :
          Step(t, [tasks[t] EXCEPT
                !.pc = "pm_save", !.result = response,
                !.u = add_to_conversation_history(tasks[t].u, "assistant", response, clock)])
    /\ clock' = clock + 1
    /\ UNCHANGED <<store, nextId, nCalls, Ghosts>>

\* await save(user); return response
ProcessMessageSave(t) ==
    /\ tasks[t].pc = "pm_save"
    /\ store' = save(store, tasks[t].u)
    /\ Step(t, Done(tasks[t], tasks[t].result))
    /\ UNCHANGED <<nextId, clock, nCalls, Ghosts>>

(* ConversationHandlerUseCase.start_practice_session *)

\* the reset-and-prompt step: clear the history, store the practice system prompt, touch
reset_and_prompt_stores_intro(u, topic, now) ==
    update_last_interaction(
        add_to_conversation_history(
            add_to_conversation_history(
                clear_history(u), "system", combined_prompt(u.proficiency_level, topic), now),
            "user", intro_prompt(topic), now),
        now)
reset_and_prompt(u, topic, now) ==
    update_last_interaction(
        add_to_conversation_history(
            clear_history(u), "system", combined_prompt(u.proficiency_level, topic), now),
        now)

PracticeSession(t) ==
    /\ CanBegin(t)
    /\ \E id \in UserIds : \E topic \in ArgsFor(id, SessionTopics) :
          LET me == Call("start_practice_session", "none", id, topic)
              u == get_by_id(store, id)
          IN  IF u = NoUser
              THEN /\ Step(t, Done(me, NotRegistered))
                   /\ UNCHANGED clock
              ELSE /\ Step(t, [me EXCEPT
                            !.pc = "sps_ai", !.read = u,
                            !.u = reset_and_prompt(u, topic, clock),
                            !.messages =
                                <<Message("system", combined_prompt(u.proficiency_level, topic)),
                                  Message("user", intro_prompt(topic))>>])
                   /\ clock' = clock + 1
    /\ UNCHANGED <<store, nextId, nCalls, Ghosts>>

\* welcome_message = await generate_response(...); append it; practice_sessions += 1
PracticeSessionReply(t) ==
    /\ tasks[t].pc = "sps_ai"
    /\ \E welcome \in Replies :
          Step(t, [tasks[t] EXCEPT
                !.pc = "sps_save", !.result = welcome,
                !.u = update_progress(
                         add_to_conversation_history(tasks[t].u, "assistant", welcome, clock),
                         [NoDelta EXCEPT !.practice_sessions = 1])])
    /\ clock' = clock + 1
    /\ UNCHANGED <<store, nextId, nCalls, Ghosts>>

\* await save(user); return welcome_message
PracticeSessionSave(t) ==
    /\ tasks[t].pc = "sps_save"
    /\ store' = save(store, tasks[t].u)
    /\ Step(t, Done(tasks[t], tasks[t].result))
    /\ UNCHANGED <<nextId, clock, nCalls, Ghosts>>

(* ConversationHandlerUseCase.evaluate_user_response *)

assistant_messages_any_role(u) == u.conversation_history
assistant_messages(u) ==
    SelectSeq(u.conversation_history, LAMBDA msg : msg.role = "assistant")

\* user = await get_by_id(user_id); choose the grading context
Evaluate(t) ==
    /\ CanBegin(t)
    /\ \E id \in UserIds : \E response \in UserResponses, pattern \in ArgsFor(id, Patterns) :
          LET me == Call("evaluate_user_response", "none", id,
                         [user_response |-> response, expected_pattern |-> pattern])
              u == get_by_id(store, id)
          IN  IF u = NoUser THEN Step(t, Done(me, UserNotFound))
              ELSE IF /\ pattern = NoPattern
                      /\ u.conversation_history # <<>>
                      /\ assistant_messages(u) # <<>>
              THEN Step(t, [me EXCEPT
                       !.pc = "eval_ai_history", !.read = u, !.u = u,
                       !.messages =
                           <<assistant_messages(u)[Len(assistant_messages(u))].content>>])
              ELSE IF pattern # NoPattern
              THEN Step(t, [me EXCEPT !.pc = "eval_ai_pattern", !.read = u, !.u = u,
                                      !.messages = <<pattern>>])
              ELSE Step(t, Done(me, InsufficientContext))
    /\ UNCHANGED <<store, nextId, clock, nCalls, Ghosts>>

\* evaluation = await evaluate_response(last_message, ...); return evaluation
EvaluateFromHistory(t) ==
    /\ tasks[t].pc = "eval_ai_history"
    /\ \E evaluation \in Evaluations : Step(t, Done(tasks[t], evaluation))
    /\ UNCHANGED <<store, nextId, clock, nCalls, Ghosts>>

\* evaluation = await evaluate_response(expected_pattern, ...); fold a grammar_score
EvaluateFromPattern(t) ==
    /\ tasks[t].pc = "eval_ai_pattern"
    /\ \E evaluation \in Evaluations :
          IF evaluation.grammar_score # NoScore
          THEN Step(t, [tasks[t] EXCEPT
                    !.pc = "eval_save", !.result = evaluation,
                    !.u = update_progress(tasks[t].u,
                             [NoDelta EXCEPT !.grammar_accuracy = evaluation.grammar_score])])
          ELSE Step(t, Done(tasks[t], evaluation))
    /\ UNCHANGED <<store, nextId, clock, nCalls, Ghosts>>

\* await save(user); return evaluation
EvaluateSave(t) ==
    /\ tasks[t].pc = "eval_save"
    /\ store' = save(store, tasks[t].u)
    /\ Step(t, Done(tasks[t], tasks[t].result))
    /\ UNCHANGED <<nextId, clock, nCalls, Ghosts>>

Next ==
    \E t \in Tasks :
        \/ RegisterUser(t) \/ BotMessage(t) \/ BotRegister(t) \/ RegisterSave(t)
        \/ UpdateLevel(t) \/ UpdateLevelSave(t)
        \/ UpdateProgress(t) \/ UpdateProgressSave(t)
        \/ AddHistory(t) \/ AddHistorySave(t)
        \/ ProcessMessage(t) \/ BotProcessMessage(t) \/ ProcessMessageReply(t)
        \/ ProcessMessageSave(t)
        \/ PracticeSession(t) \/ PracticeSessionReply(t) \/ PracticeSessionSave(t)
        \/ Evaluate(t) \/ EvaluateFromHistory(t) \/ EvaluateFromPattern(t)
        \/ EvaluateSave(t)

Spec == Init /\ [][Next]_vars

----------------------------------------------------------------------------
(* Claims about the User entity *)

Lessons(u) == u.progress.lessons_completed
Pron(u) == u.progress.pronunciation_score
Gram(u) == u.progress.grammar_accuracy
History(u) == u.conversation_history

\* C1: after every add_to_conversation_history call the history has at most
\* 20 entries and is exactly the last min(n, 20) of the n entries appended
\* since the last reset, in the order they were appended.
C1_HistoryIsMostRecent ==
    LET h == History(user)
        n == Len(appended)
    IN  /\ Len(h) <= 20
        /\ Len(h) = (IF n <= 20 THEN n ELSE 20)
        /\ \A i \in 1..Len(h) : h[i] = appended[n - Len(h) + i]

C1_Witness ==
    /\ call.op = "add_to_conversation_history"
    /\ Len(appended) = 22
    /\ Len(History(user)) = 20
    /\ History(user)[1] = appended[3]

\* C3: one level_up() call never lowers the tier, raises it by at most one
\* step (a Beginner never becomes Advanced, even with the Advanced
\* thresholds met) and returns true exactly when the tier changed.
C3_LevelUpSingleStep ==
    call.op = "level_up" =>
        /\ Rank(user.proficiency_level) - Rank(prev.proficiency_level) \in {0, 1}
        /\ prev.proficiency_level = BEGINNER => user.proficiency_level # ADVANCED
        /\ call.result = (user.proficiency_level # prev.proficiency_level)

C3_Witness ==
    /\ call.op = "level_up"
    /\ prev.proficiency_level = BEGINNER
    /\ Lessons(prev) >= 25
    /\ Pron(prev) = AdvancedScore
    /\ Gram(prev) = AdvancedScore
    /\ user.proficiency_level = INTERMEDIATE
    /\ call.result = TRUE

\* C5: after any sequence of update_progress calls each counter equals its
\* initial value plus the sum of the deltas passed for it, whatever the
\* order of the calls.
C5_CountersAreSums ==
    /\ user.progress.vocabulary_mastered =
          initial.progress.vocabulary_mastered + sums.vocabulary_mastered
    /\ user.progress.lessons_completed =
          initial.progress.lessons_completed + sums.lessons_completed
    /\ user.progress.practice_sessions =
          initial.progress.practice_sessions + sums.practice_sessions

C5_Witness ==
    /\ call.op = "update_progress"
    /\ nCalls = 2
    /\ sums.vocabulary_mastered = 3
    /\ sums.lessons_completed = 15
    /\ user.progress.vocabulary_mastered = 3
    /\ Lessons(user) = Lessons(initial) + 15

\* new = stored * 0.7 + sample * 0.3, stated as 10 * (new - stored) =
\* 3 * (sample - stored) over the common denominator
IsSmoothed(new, stored, sample) ==
    LET E == Max(new.e, Max(stored.e, sample.e))
    IN  10 * (Scaled(new, E) - Scaled(stored, E)) = 3 * (Scaled(sample, E) - Scaled(stored, E))

\* C6: update_progress sets each score to stored * 0.7 + sample * 0.3 when
\* the sample is > 0 (stored 0.5 and sample 1.0 give 0.65) and leaves it
\* unchanged when the sample is 0 or absent.
C6_ScoreSmoothing ==
    call.op = "update_progress" =>
        /\ IF call.delta.pronunciation_score.n > 0
           THEN IsSmoothed(Pron(user), Pron(prev), call.delta.pronunciation_score)
           ELSE Pron(user) = Pron(prev)
        /\ IF call.delta.grammar_accuracy.n > 0
           THEN IsSmoothed(Gram(user), Gram(prev), call.delta.grammar_accuracy)
           ELSE Gram(user) = Gram(prev)
        /\ (Pron(prev) = [n |-> 5, e |-> 1] /\ call.delta.pronunciation_score = [n |-> 1, e |-> 0])
              => Pron(user) = [n |-> 65, e |-> 2]

C6_Witness ==
    /\ call.op = "update_progress"
    /\ Pron(prev) = [n |-> 5, e |-> 1]
    /\ call.delta.pronunciation_score = [n |-> 1, e |-> 0]
    /\ Pron(user) = [n |-> 65, e |-> 2]
    /\ call.delta.grammar_accuracy.n = 0
    /\ Gram(user) = Gram(prev)

\* score >= k / 10
AtLeastTenths(s, k) == 10 * s.n >= k * Pow10(s.e)

\* C7: should_level_up() is true exactly for a Beginner with at least 10
\* lessons and both scores >= 0.7, or an Intermediate with at least 25
\* lessons and both scores >= 0.8, and never for Advanced; a Beginner with 9
\* lessons and both scores 0.7 satisfies it after update_progress(lessons 1),
\* and level_up() then makes the user Intermediate and returns true.
C7_ShouldLevelUpThresholds ==
    /\ should_level_up(user) =
          \/ /\ user.proficiency_level = "beginner"
             /\ Lessons(user) >= 10
             /\ AtLeastTenths(Pron(user), 7)
             /\ AtLeastTenths(Gram(user), 7)
          \/ /\ user.proficiency_level = "intermediate"
             /\ Lessons(user) >= 25
             /\ AtLeastTenths(Pron(user), 8)
             /\ AtLeastTenths(Gram(user), 8)
    /\ (/\ call.op = "update_progress"
        /\ prev.proficiency_level = "beginner"
        /\ Lessons(prev) = 9 /\ call.delta.lessons_completed = 1
        /\ Pron(user) = [n |-> 7, e |-> 1] /\ Gram(user) = [n |-> 7, e |-> 1])
          => should_level_up(user)
    /\ (/\ call.op = "level_up"
        /\ prev.proficiency_level = "beginner"
        /\ Lessons(prev) = 10
        /\ Pron(prev) = [n |-> 7, e |-> 1] /\ Gram(prev) = [n |-> 7, e |-> 1])
          => (call.result = TRUE /\ user.proficiency_level = "intermediate")

C7_Witness ==
    /\ initial.proficiency_level = "beginner"
    /\ Lessons(initial) = 9
    /\ Pron(initial) = [n |-> 7, e |-> 1] /\ Gram(initial) = [n |-> 7, e |-> 1]
    /\ nCalls = 2
    /\ sums.lessons_completed = 1
    /\ call.op = "level_up"
    /\ Lessons(prev) = 10
    /\ call.result = TRUE
    /\ user.proficiency_level = "intermediate"

----------------------------------------------------------------------------
(* Claims about the use cases running over the store *)

SaveSteps == {"register_save", "level_save", "progress_save", "history_save",
              "pm_save", "sps_save", "eval_save"}

RecordsOf(st, d) == {id \in DOMAIN st : st[id].discord_id = d}

\* C2: in every reachable state, whatever the interleaving of
\* process_message, start_practice_session, evaluate_user_response and
\* add_to_conversation_history, the conversation history of every persisted
\* user has at most 20 entries.
C2_PersistedHistoryBounded ==
    \A id \in DOMAIN store : Len(History(store[id])) <= 20

C2_Witness ==
    /\ 1 \in DOMAIN initial
    /\ Len(History(initial[1])) = 19
    /\ Len(History(store[1])) = 20
    /\ \E t \in Tasks :
          /\ tasks[t].op = "process_message"
          /\ tasks[t].pc = "done"
          /\ tasks[t].result \in Replies
          /\ History(store[1])[20].role = "assistant"
          /\ History(store[1])[1] = History(initial[1])[2]

\* C4 as claimed: over every sequence of operations, update_user_level
\* included, a persisted user's tier changes only Beginner -> Intermediate
\* or Intermediate -> Advanced.
C4_TierNeverBackwardNeverSkips ==
    [][\A id \in DOMAIN store :
          \/ store'[id].proficiency_level = store[id].proficiency_level
          \/ Rank(store'[id].proficiency_level) = Rank(store[id].proficiency_level) + 1]_vars

\* C4 as amended: a save by any operation other than update_user_level (the
\* administrative override), made over the very record the operation read,
\* changes the persisted tier only Beginner -> Intermediate or
\* Intermediate -> Advanced.
C4_TierStepsExceptOverride ==
    [][\A id \in DOMAIN store : \A t \in Tasks :
          (/\ tasks[t].pc \in SaveSteps
           /\ tasks'[t] # tasks[t]
           /\ tasks[t].op # "update_user_level"
           /\ tasks[t].read = store[id])
          => \/ store'[id].proficiency_level = store[id].proficiency_level
             \/ Rank(store'[id].proficiency_level) =
                   Rank(store[id].proficiency_level) + 1]_vars

C4_Witness ==
    /\ 1 \in DOMAIN initial
    /\ initial[1].proficiency_level = BEGINNER
    /\ store[1].proficiency_level = INTERMEDIATE
    /\ \E t \in Tasks :
          /\ tasks[t].op = "update_user_progress"
          /\ tasks[t].pc = "done"
          /\ tasks[t].result = store[1]
          /\ Lessons(store[1]) = 10

\* C8: register_user is idempotent when called in sequence.  A call made when
\* a record for the discord_id is already stored returns that record and
\* leaves the store as it is; the registrations that returned for one
\* discord_id returned the same id, and the store holds exactly one record for
\* it; a user just created is a Beginner with zeroed progress.
C8_RegisterIdempotent ==
    /\ [](\A t \in Tasks :
            (tasks[t].op = "register_user" /\ tasks[t].pc = "done") =>
                /\ Cardinality(RecordsOf(store, tasks[t].discord_id)) = 1
                /\ tasks[t].result.id \in RecordsOf(store, tasks[t].discord_id)
                /\ \A t2 \in Tasks :
                      (/\ tasks[t2].op = "register_user"
                       /\ tasks[t2].pc = "done"
                       /\ tasks[t2].discord_id = tasks[t].discord_id)
                      => tasks[t2].result.id = tasks[t].result.id
                /\ tasks[t].reg = "created" =>
                      /\ tasks[t].result.proficiency_level = BEGINNER
                      /\ tasks[t].result.progress =
                            UserProgress(tasks[t].result.progress.last_active)
                      /\ tasks[t].result.conversation_history = <<>>)
    /\ [][\A t \in Tasks :
            (/\ tasks[t].pc = "idle"
             /\ tasks'[t].op = "register_user"
             /\ RecordsOf(store, tasks'[t].discord_id) # {})
            => /\ tasks'[t].pc = "done"
               /\ tasks'[t].result.id \in RecordsOf(store, tasks'[t].discord_id)
               /\ tasks'[t].result = store[tasks'[t].result.id]
               /\ store' = store]_vars

C8_Witness ==
    /\ initial = <<>>
    /\ Cardinality(RecordsOf(store, "d2")) = 1
    /\ \E t1, t2 \in Tasks :
          /\ tasks[t1].op = "register_user" /\ tasks[t2].op = "register_user"
          /\ tasks[t1].discord_id = "d2" /\ tasks[t2].discord_id = "d2"
          /\ tasks[t1].pc = "done" /\ tasks[t2].pc = "done"
          /\ tasks[t1].reg = "created" /\ tasks[t2].reg = "existing"
          /\ tasks[t1].result = tasks[t2].result
          /\ tasks[t1].result.proficiency_level = BEGINNER

\* C9 as claimed: the store never holds two users with one discord_id, and
\* when registrations for the same unseen discord_id interleave, the one that
\* comes second returns the stored user: no registration fails.
C9_ConcurrentRegisterNeverFails ==
    /\ \A d \in DiscordIds : Cardinality(RecordsOf(store, d)) <= 1
    /\ \A t \in Tasks :
          /\ tasks[t].reg # "IntegrityError"
          /\ tasks[t].pc # "failed"

\* C10 as claimed: start_practice_session on a user with 5 stored history
\* entries holds 2 entries after the reset-and-prompt step and 3 once the
\* assistant reply is appended.
C10_TwoThenThreeEntries ==
    \A t \in Tasks :
        (/\ tasks[t].op = "start_practice_session"
         /\ tasks[t].pc \in {"sps_ai", "sps_save"}
         /\ Len(History(tasks[t].read)) = 5) =>
            /\ tasks[t].pc = "sps_ai" => Len(History(tasks[t].u)) = 2
            /\ tasks[t].pc = "sps_save" => Len(History(tasks[t].u)) = 3

\* C10 as amended: start_practice_session on a user with 5 stored history
\* entries holds exactly 1 entry after the reset-and-prompt step, the system
\* prompt (the synthetic user message goes to the provider only), and exactly
\* 2 once the assistant reply is appended, which is what it persists.
C10_OneThenTwoEntries ==
    \A t \in Tasks :
        (/\ tasks[t].op = "start_practice_session"
         /\ tasks[t].pc \in {"sps_ai", "sps_save"}
         /\ Len(History(tasks[t].read)) = 5) =>
            /\ tasks[t].pc = "sps_ai" =>
                  /\ Len(History(tasks[t].u)) = 1
                  /\ History(tasks[t].u)[1].role = "system"
                  /\ Len(tasks[t].messages) = 2
                  /\ tasks[t].messages[2].role = "user"
            /\ tasks[t].pc = "sps_save" =>
                  /\ Len(History(tasks[t].u)) = 2
                  /\ History(tasks[t].u)[1].role = "system"
                  /\ History(tasks[t].u)[2].role = "assistant"

C10_Witness ==
    \E t \in Tasks :
        /\ tasks[t].op = "start_practice_session"
        /\ tasks[t].pc = "sps_save"
        /\ Len(History(tasks[t].read)) = 5
        /\ Len(History(tasks[t].u)) = 2
        /\ tasks[t].u.progress.practice_sessions =
              tasks[t].read.progress.practice_sessions + 1

----------------------------------------------------------------------------
(* SpecTurn: the conversation use cases called one at a time, through the   *)
(* HybridAIService facade, over a store holding one user.  io records every *)
(* call the running operation makes on the repository and on the two        *)
(* providers; initial is the store as the operation found it.               *)

\* what a provider call ends with: a returned value or a raised exception;
\* failed tells whether the provider's own request failed (the concrete
\* providers catch that and return a fixed fallback value)
Outcome(kind, value, failed) == [kind |-> kind, value |-> value, failed |-> failed]

Apology == <<"Desculpe, nao consegui gerar uma resposta. Por favor, tente novamente mais tarde.">>
NotImplementedError == [exception |-> "NotImplementedError"]
EvaluationFallback == [grammar_score |-> Dec(5, 1)]

ResponseOutcomes ==
    {Outcome("return", [text |-> r], FALSE) : r \in Replies}
    \cup {Outcome("return", [text |-> Apology], TRUE),
          Outcome("raise", NotImplementedError, TRUE)}

EvaluationOutcomes ==
    {Outcome("return", e, FALSE) : e \in Evaluations}
    \cup {Outcome("return", EvaluationFallback, TRUE),
          Outcome("raise", NotImplementedError, TRUE)}

FeatureOutcomes ==
    {Outcome("return", [content |-> "generated"], FALSE),
     Outcome("return", [content |-> "fallback"], TRUE),
     Outcome("raise", NotImplementedError, TRUE)}

Capabilities ==
    {"generate_response", "generate_lesson_content", "generate_exercises",
     "evaluate_response", "evaluate_pronunciation", "generate_vocabulary_list",
     "translate_text"}

OutcomesOf(capability) ==
    IF capability = "generate_response" THEN ResponseOutcomes
    ELSE IF capability = "evaluate_response" THEN EvaluationOutcomes
    ELSE FeatureOutcomes

StoreCall(name, arg) == [target |-> "user_repository", call |-> name, arg |-> arg]

ProviderCall(provider, capability, args, outcome) ==
    [target |-> provider, call |-> capability, args |-> args, outcome |-> outcome]

(* HybridAIService *)

OtherProvider(provider) ==
    IF provider = "conversation_service" THEN "feature_service" ELSE "conversation_service"

\* the provider each method of the facade awaits
ProviderFor(capability) ==
    IF capability = "generate_response" THEN "conversation_service" ELSE "feature_service"

\* one facade call: the provider calls it makes and what it ends with, given
\* what the provider ends with
HybridAIService_retries_on_other(capability, args, outcome) ==
    IF outcome.kind = "raise"
    THEN [calls |-> <<ProviderCall(ProviderFor(capability), capability, args, outcome),
                      ProviderCall(OtherProvider(ProviderFor(capability)), capability, args,
                                   outcome)>>,
          outcome |-> Outcome("return", [content |-> "fallback"], TRUE)]
    ELSE [calls |-> <<ProviderCall(ProviderFor(capability), capability, args, outcome)>>,
          outcome |-> outcome]
HybridAIService(capability, args, outcome) ==
    [calls |-> <<ProviderCall(ProviderFor(capability), capability, args, outcome)>>,
     outcome |-> outcome]

(* The store and the calls *)

TurnHistory(n) ==
    [i \in 1..n |-> Entry(IF i % 2 = 1 THEN "user" ELSE "assistant", <<"turn", ToString(i)>>, i)]

TurnUser(level, l, s, k, n) ==
    [User(1, "d1", "alice", level,
          [UserProgress(IF n = 0 THEN 1 ELSE n)
              EXCEPT !.vocabulary_mastered = k + 1,
                     !.lessons_completed = l,
                     !.practice_sessions = k,
                     !.pronunciation_score = s,
                     !.grammar_accuracy = s,
                     !.completed_topics = IF k = 0 THEN <<>> ELSE <<"verbs">>], 1)
        EXCEPT !.conversation_history = TurnHistory(n),
               !.last_interaction = IF n = 0 THEN NoTime ELSE n]

\* one registered user: new; with one message and no answer yet; a Beginner
\* whose scores have reached the Intermediate thresholds; with a full history
TurnStores ==
    {1 :> TurnUser(BEGINNER, 0, Zero, 0, 0),
     1 :> TurnUser(BEGINNER, 0, Zero, 0, 1),
     1 :> TurnUser(BEGINNER, 10, IntermediateScore, 3, 5),
     1 :> TurnUser(INTERMEDIATE, 12, Dec(5, 1), 1, 20)}

TurnIdle ==
    [op |-> "none", pc |-> "done", user_id |-> UnknownId, arg |-> None, u |-> NoUser,
     context |-> <<>>, result |-> None]

TurnCall(op, id, arg) ==
    [TurnIdle EXCEPT !.op = op, !.pc = "get", !.user_id = id, !.arg = arg]

TurnInit ==
    /\ store \in TurnStores
    /\ initial = store
    /\ call = TurnIdle
    /\ io = <<>>
    /\ nCalls = 0
    /\ clock = 21
    /\ user = NoUser
    /\ prev = NoUser
    /\ sums = NoSums
    /\ appended = <<>>
    /\ tasks = <<>>
    /\ nextId = 2

TurnUnused == <<user, prev, sums, appended, tasks, nextId>>

\* a use case is called: the previous call has ended
TurnBegin ==
    /\ call.pc \in {"done", "raised"}
    /\ nCalls < MaxCalls
    /\ nCalls' = nCalls + 1
    /\ initial' = store

\* the facade's outcome reaches the awaiting use case: an exception propagates
TurnRaised(h) ==
    /\ h.outcome.kind = "raise"
    /\ call' = [call EXCEPT !.pc = "raised", !.result = h.outcome.value]
    /\ UNCHANGED clock

(* ConversationHandlerUseCase.process_message *)

TurnProcessMessage ==
    /\ TurnBegin
    /\ \E id \in UserIds, text \in Texts :
          LET me == TurnCall("process_message", id, text)
              u == get_by_id(store, id)
          IN  /\ io' = <<StoreCall("get_by_id", id)>>
              /\ IF u = NoUser
                 THEN /\ call' = [me EXCEPT !.pc = "done", !.result = NotRegistered]
                      /\ UNCHANGED clock
                 ELSE LET v == update_last_interaction(
                                  add_to_conversation_history(u, "user", text, clock), clock)
                      IN  /\ call' = [me EXCEPT !.pc = "ai", !.u = v,
                                                !.context = _prepare_context_for_ai(v)]
                          /\ clock' = clock + 1
    /\ UNCHANGED <<store, TurnUnused>>

TurnProcessMessageReply ==
    /\ call.op = "process_message"
    /\ call.pc = "ai"
    /\ \E outcome \in ResponseOutcomes :
          LET h == HybridAIService("generate_response",
                      [messages |-> call.context, user_level |-> call.u.proficiency_level],
                      outcome)
          IN  /\ io' = io \o h.calls
              /\ \/ TurnRaised(h)
                 \/ /\ h.outcome.kind = "return"
                    /\ call' = [call EXCEPT
                          !.pc = "save", !.result = h.outcome.value.text,
                          !.u = add_to_conversation_history(
                                   call.u, "assistant", h.outcome.value.text, clock)]
                    /\ clock' = clock + 1
    /\ UNCHANGED <<store, initial, nCalls, TurnUnused>>

(* ConversationHandlerUseCase.start_practice_session *)

practice_progress_and_level_up(u) ==
    progress_then_level_up(u, [NoDelta EXCEPT !.practice_sessions = 1])
\* user.update_progress(practice_sessions=1)
practice_progress(u) == update_progress(u, [NoDelta EXCEPT !.practice_sessions = 1])

\* messages = [system combined_prompt, user intro_prompt]
practice_messages_with_history(u, topic) ==
    <<Message("system", combined_prompt(u.proficiency_level, topic))>> \o
    [i \in 1..Len(u.conversation_history) |->
        Message(u.conversation_history[i].role, u.conversation_history[i].content)] \o
    <<Message("user", intro_prompt(topic))>>
practice_messages(u, topic) ==
    <<Message("system", combined_prompt(u.proficiency_level, topic)),
      Message("user", intro_prompt(topic))>>

TurnPracticeSession ==
    /\ TurnBegin
    /\ \E id \in UserIds : \E topic \in ArgsFor(id, SessionTopics) :
          LET me == TurnCall("start_practice_session", id, topic)
              u == get_by_id(store, id)
          IN  /\ io' = <<StoreCall("get_by_id", id)>>
              /\ IF u = NoUser
                 THEN /\ call' = [me EXCEPT !.pc = "done", !.result = NotRegistered]
                      /\ UNCHANGED clock
                 ELSE /\ call' = [me EXCEPT !.pc = "ai",
                                            !.u = reset_and_prompt(u, topic, clock),
                                            !.context = practice_messages(u, topic)]
                      /\ clock' = clock + 1
    /\ UNCHANGED <<store, TurnUnused>>

TurnPracticeSessionReply ==
    /\ call.op = "start_practice_session"
    /\ call.pc = "ai"
    /\ \E outcome \in ResponseOutcomes :
          LET h == HybridAIService("generate_response",
                      [messages |-> call.context, user_level |-> call.u.proficiency_level],
                      outcome)
          IN  /\ io' = io \o h.calls
              /\ \/ TurnRaised(h)
                 \/ /\ h.outcome.kind = "return"
                    /\ call' = [call EXCEPT
                          !.pc = "save", !.result = h.outcome.value.text,
                          !.u = practice_progress(
                                   add_to_conversation_history(
                                      call.u, "assistant", h.outcome.value.text, clock))]
                    /\ clock' = clock + 1
    /\ UNCHANGED <<store, initial, nCalls, TurnUnused>>

(* ConversationHandlerUseCase.evaluate_user_response *)

\* assistant_messages[-1].get("content", "")
first_assistant_content(u) == assistant_messages(u)[1].content
last_assistant_content(u) == assistant_messages(u)[Len(assistant_messages(u))].content

TurnEvaluate ==
    /\ TurnBegin
    /\ \E id \in UserIds : \E response \in UserResponses, pattern \in ArgsFor(id, Patterns) :
          LET me == TurnCall("evaluate_user_response", id,
                             [user_response |-> response, expected_pattern |-> pattern])
              u == get_by_id(store, id)
          IN  /\ io' = <<StoreCall("get_by_id", id)>>
              /\ IF u = NoUser
                 THEN call' = [me EXCEPT !.pc = "done", !.result = UserNotFound]
                 ELSE IF /\ pattern = NoPattern
                         /\ u.conversation_history # <<>>
                         /\ assistant_messages(u) # <<>>
                 THEN call' = [me EXCEPT !.pc = "ai_history", !.u = u,
                                         !.context = last_assistant_content(u)]
                 ELSE IF pattern # NoPattern
                 THEN call' = [me EXCEPT !.pc = "ai_pattern", !.u = u, !.context = pattern]
                 ELSE call' = [me EXCEPT !.pc = "done", !.u = u,
                                         !.result = InsufficientContext]
    /\ UNCHANGED <<store, clock, TurnUnused>>

\* the history branch: return evaluation
TurnEvaluateFromHistory ==
    /\ call.pc = "ai_history"
    /\ \E outcome \in EvaluationOutcomes :
          LET h == HybridAIService("evaluate_response",
                      [expected_pattern |-> call.context,
                       user_response |-> call.arg.user_response,
                       user_level |-> call.u.proficiency_level], outcome)
          IN  /\ io' = io \o h.calls
              /\ \/ TurnRaised(h)
                 \/ /\ h.outcome.kind = "return"
                    /\ call' = [call EXCEPT !.pc = "done", !.result = h.outcome.value]
                    /\ UNCHANGED clock
    /\ UNCHANGED <<store, initial, nCalls, TurnUnused>>

\* the expected_pattern branch: fold a grammar_score, then save
TurnEvaluateFromPattern ==
    /\ call.pc = "ai_pattern"
    /\ \E outcome \in EvaluationOutcomes :
          LET h == HybridAIService("evaluate_response",
                      [expected_pattern |-> call.context,
                       user_response |-> call.arg.user_response,
                       user_level |-> call.u.proficiency_level], outcome)
          IN  /\ io' = io \o h.calls
              /\ \/ TurnRaised(h)
                 \/ /\ h.outcome.kind = "return"
                    /\ IF h.outcome.value.grammar_score # NoScore
                       THEN call' = [call EXCEPT
                               !.pc = "save", !.result = h.outcome.value,
                               !.u = update_progress(call.u,
                                        [NoDelta EXCEPT
                                            !.grammar_accuracy = h.outcome.value.grammar_score])]
                       ELSE call' = [call EXCEPT !.pc = "done", !.result = h.outcome.value]
                    /\ UNCHANGED clock
    /\ UNCHANGED <<store, initial, nCalls, TurnUnused>>

\* await self.user_repository.save(user); return the result
TurnSave ==
    /\ call.pc = "save"
    /\ store' = save(store, call.u)
    /\ io' = Append(io, StoreCall("save", call.u.id))
    /\ call' = [call EXCEPT !.pc = "done"]
    /\ UNCHANGED <<initial, nCalls, clock, TurnUnused>>

(* A direct call of one method of the facade *)

TurnFacade ==
    /\ TurnBegin
    /\ \E capability \in Capabilities : \E outcome \in OutcomesOf(capability) :
          LET h == HybridAIService(capability, [capability |-> capability], outcome)
          IN  /\ io' = h.calls
              /\ call' = [TurnCall("ai_service", UnknownId, capability) EXCEPT
                            !.pc = IF h.outcome.kind = "raise" THEN "raised" ELSE "done",
                            !.result = h.outcome]
    /\ UNCHANGED <<store, clock, TurnUnused>>

TurnNext ==
    \/ TurnProcessMessage \/ TurnProcessMessageReply
    \/ TurnPracticeSession \/ TurnPracticeSessionReply
    \/ TurnEvaluate \/ TurnEvaluateFromHistory \/ TurnEvaluateFromPattern
    \/ TurnSave \/ TurnFacade

SpecTurn == TurnInit /\ [][TurnNext]_vars

----------------------------------------------------------------------------
(* Claims about one call of a conversation use case or of the facade *)

\* the calls of the running operation that went to an AI provider / that saved
ProviderCalls == SelectSeq(io, LAMBDA c : c.target # "user_repository")
SaveCalls == SelectSeq(io, LAMBDA c : c.target = "user_repository" /\ c.call = "save")

\* the running operation found its user in the store
Found == call.user_id \in DOMAIN initial
Before == initial[call.user_id]
After == store[call.user_id]

\* the provider has been awaited: the operation holds its reply, or has ended
Answered == call.pc \in {"save", "done", "raised"}

RoleAndContent(h) == [i \in 1..Len(h) |-> [role |-> h[i].role, content |-> h[i].content]]

\* C11: start_practice_session discards the prior history.  For any prior
\* history the conversational provider is called with exactly two messages,
\* the practice system prompt and then the synthetic session-start user
\* message, and nothing of the prior history; and once the call has returned,
\* no entry that was stored before it is in the persisted history.
C11_SessionDiscardsHistory ==
    (call.op = "start_practice_session" /\ Found /\ Answered) =>
        /\ Len(ProviderCalls) = 1
        /\ ProviderCalls[1].call = "generate_response"
        /\ LET m == ProviderCalls[1].args.messages
           IN  /\ Len(m) = 2
               /\ m[1] = [role |-> "system",
                          content |-> combined_prompt(Before.proficiency_level, call.arg)]
               /\ m[2] = [role |-> "user", content |-> intro_prompt(call.arg)]
        /\ call.pc = "done" =>
              \A i \in 1..Len(History(After)) : \A j \in 1..Len(History(Before)) :
                  History(After)[i] # History(Before)[j]

C11_Witness ==
    /\ call.op = "start_practice_session"
    /\ call.pc = "done"
    /\ Found
    /\ Len(History(Before)) = 5
    /\ Len(History(After)) = 2
    /\ Len(ProviderCalls[1].args.messages) = 2

\* C12: a start_practice_session call that returned for a stored user raised
\* the persisted practice_sessions by exactly 1 and left vocabulary_mastered,
\* lessons_completed, both scores, completed_topics and the tier as they were.
C12_SessionCountsOnce ==
    (call.op = "start_practice_session" /\ Found /\ call.pc = "done") =>
        /\ After.progress.practice_sessions = Before.progress.practice_sessions + 1
        /\ After.progress.vocabulary_mastered = Before.progress.vocabulary_mastered
        /\ Lessons(After) = Lessons(Before)
        /\ Pron(After) = Pron(Before)
        /\ Gram(After) = Gram(Before)
        /\ After.progress.completed_topics = Before.progress.completed_topics
        /\ After.proficiency_level = Before.proficiency_level

C12_Witness ==
    /\ call.op = "start_practice_session"
    /\ call.pc = "done"
    /\ Found
    /\ Before.progress.practice_sessions = 3
    /\ After.progress.practice_sessions = 4
    /\ Lessons(After) = 10
    /\ After.proficiency_level = BEGINNER

\* C13: evaluate_user_response without an expected pattern, for a stored user
\* whose history has no assistant entry (an empty history included), returns
\* the insufficient-context error, calls no provider and leaves the store as
\* it was.
C13_NoContextNoProviderCall ==
    (/\ call.op = "evaluate_user_response"
     /\ Found
     /\ call.arg.expected_pattern = NoPattern
     /\ \A i \in 1..Len(History(Before)) : History(Before)[i].role # "assistant") =>
        /\ call.pc = "done"
        /\ call.result = InsufficientContext
        /\ ProviderCalls = <<>>
        /\ SaveCalls = <<>>
        /\ store = initial

C13_Witness ==
    /\ call.op = "evaluate_user_response"
    /\ call.pc = "done"
    /\ Found
    /\ call.arg.expected_pattern = NoPattern
    /\ Len(History(Before)) = 1
    /\ History(Before)[1].role = "user"
    /\ call.result = InsufficientContext
    /\ Len(io) = 1

\* the content of the assistant entry of h that has the highest index
LatestAssistantContent(h) ==
    h[CHOOSE k \in 1..Len(h) :
         /\ h[k].role = "assistant"
         /\ \A j \in (k + 1)..Len(h) : h[j].role # "assistant"].content

\* C14: the grading context evaluate_user_response passes to the evaluation
\* provider is the explicit expected pattern whenever one is given, whatever
\* the history; otherwise it is the content of the last assistant entry of
\* the stored history.
C14_GradingContext ==
    (call.op = "evaluate_user_response" /\ ProviderCalls # <<>>) =>
        /\ Len(ProviderCalls) = 1
        /\ ProviderCalls[1].call = "evaluate_response"
        /\ ProviderCalls[1].args.user_response = call.arg.user_response
        /\ ProviderCalls[1].args.expected_pattern =
              IF call.arg.expected_pattern # NoPattern
              THEN call.arg.expected_pattern
              ELSE LatestAssistantContent(History(Before))

C14_Witness ==
    /\ call.op = "evaluate_user_response"
    /\ call.pc = "done"
    /\ Found
    /\ call.arg.expected_pattern = NoPattern
    /\ Len(History(Before)) = 5
    /\ ProviderCalls # <<>>
    /\ History(Before)[2].role = "assistant"
    /\ History(Before)[4].role = "assistant"
    /\ History(Before)[2].content # History(Before)[4].content
    /\ ProviderCalls[1].args.expected_pattern = History(Before)[4].content

\* C15 as claimed: whenever evaluate_user_response returns an evaluation that
\* carries a grammar score, whether the grading context was an explicit
\* pattern or the last assistant entry, the score has been folded into the
\* user's grammar_accuracy and the user has been saved.
C15_GrammarScoreAlwaysFolded ==
    (/\ call.op = "evaluate_user_response"
     /\ call.pc = "done"
     /\ Found
     /\ ProviderCalls # <<>>
     /\ call.result.grammar_score # NoScore) =>
        /\ Len(SaveCalls) = 1
        /\ Gram(After) =
              IF ScoreGt(call.result.grammar_score, Zero)
              THEN WeightedAverage(Gram(Before), call.result.grammar_score)
              ELSE Gram(Before)

\* C16: process_message, start_practice_session and evaluate_user_response
\* called with a user id that has no record return the fixed not-registered
\* result (the message, or the error dict of the evaluation), call no AI
\* provider and write nothing: the store is unchanged.
C16_UnknownUserIsTerminal ==
    (/\ call.op \in {"process_message", "start_practice_session", "evaluate_user_response"}
     /\ ~Found) =>
        /\ call.pc = "done"
        /\ IF call.op = "evaluate_user_response"
           THEN call.result = UserNotFound
           ELSE call.result = NotRegistered
        /\ ProviderCalls = <<>>
        /\ SaveCalls = <<>>
        /\ Len(io) = 1
        /\ store = initial

C16_Witness ==
    /\ call.op = "start_practice_session"
    /\ call.user_id = UnknownId
    /\ call.pc = "done"
    /\ call.result = NotRegistered
    /\ nCalls = 2
    /\ store # <<>>

\* the history process_message works on: the stored one, then the user message
WithUserMessage ==
    RoleAndContent(History(Before)) \o <<[role |-> "user", content |-> call.arg]>>

\* s[-20:], written out
Last20(s) == [i \in 1..(IF Len(s) > 20 THEN 20 ELSE Len(s)) |->
                 s[i + (IF Len(s) > 20 THEN Len(s) - 20 ELSE 0)]]

\* C17: the context process_message sends to the conversational provider is
\* one system-prompt message derived from the tier, followed by the whole
\* history in order as it is after the user message was appended and the
\* history cut to its last 20 entries: at most 21 messages, the first the only
\* one the use case adds, the last the user message being processed.
C17_ContextIsPromptThenHistory ==
    (call.op = "process_message" /\ Found /\ Answered) =>
        /\ Len(ProviderCalls) = 1
        /\ LET m == ProviderCalls[1].args.messages
           IN  /\ Len(m) <= 21
               /\ m[1] = [role |-> "system",
                          content |-> _get_system_prompt(Before.proficiency_level)]
               /\ Tail(m) = Last20(WithUserMessage)
               /\ m[Len(m)] = [role |-> "user", content |-> call.arg]

C17_Witness ==
    /\ call.op = "process_message"
    /\ call.pc = "save"
    /\ Found
    /\ Len(History(Before)) = 20
    /\ Len(ProviderCalls[1].args.messages) = 21
    /\ ProviderCalls[1].args.messages[2].content = History(Before)[2].content

\* C18: a process_message call that returned for a stored user persisted the
\* last 20 entries of the history before the call followed by the user entry
\* and then the assistant entry with the reply; it made exactly one provider
\* call and exactly one store write, the write after the provider call; and
\* it returned exactly the reply the provider produced.
C18_ProcessMessageTurn ==
    (call.op = "process_message" /\ Found /\ call.pc = "done") =>
        /\ Len(io) = 3
        /\ io[1].call = "get_by_id"
        /\ io[2].target = "conversation_service" /\ io[2].call = "generate_response"
        /\ io[3].target = "user_repository" /\ io[3].call = "save"
        /\ io[2].outcome.kind = "return"
        /\ call.result = io[2].outcome.value.text
        /\ RoleAndContent(History(After)) =
              Last20(WithUserMessage \o <<[role |-> "assistant", content |-> call.result]>>)
        /\ \A i \in 1..Len(History(After)) : \A j \in 1..Len(History(Before)) :
              History(After)[i].timestamp = History(Before)[j].timestamp =>
                  History(After)[i] = History(Before)[j]

C18_Witness ==
    /\ call.op = "process_message"
    /\ call.pc = "done"
    /\ Found
    /\ Len(History(Before)) = 20
    /\ Len(History(After)) = 20
    /\ History(After)[1] = History(Before)[3]
    /\ History(After)[19].content = call.arg
    /\ History(After)[20].content = call.result
    /\ call.result \in Replies

\* C19: the facade is a static delegator.  A generate_response call makes
\* exactly one call, to the conversation provider; a call of any other method
\* makes exactly one call, to the feature provider; what the provider returns
\* or raises is what the facade returns or raises, unchanged; a failure is
\* followed by no second call, to either provider.
C19_FacadeDelegatesOnce ==
    /\ Len(ProviderCalls) <= 1
    /\ \A i \in 1..Len(ProviderCalls) :
          /\ ProviderCalls[i].call = "generate_response" =>
                ProviderCalls[i].target = "conversation_service"
          /\ ProviderCalls[i].call # "generate_response" =>
                ProviderCalls[i].target = "feature_service"
          /\ (ProviderCalls[i].outcome.kind = "raise") = (call.pc = "raised")
    /\ call.op = "ai_service" =>
          /\ Len(ProviderCalls) = 1
          /\ ProviderCalls[1].call = call.arg
          /\ call.result = ProviderCalls[1].outcome
    /\ (call.op # "ai_service" /\ call.pc = "raised") =>
          call.result = ProviderCalls[1].outcome.value

C19_Witness ==
    /\ call.op = "ai_service"
    /\ call.arg = "translate_text"
    /\ call.pc = "raised"
    /\ Len(io) = 1
    /\ io[1].target = "feature_service"
    /\ io[1].outcome.kind = "raise"

\* C20 as claimed: when the AI provider fails during process_message or
\* start_practice_session, it is not called again, the call returns the
\* generic apology, and the persisted user is as it was before the call: no
\* entry of this turn, the apology least of all, is stored, and no counter
\* changes.
C20_ProviderFailureLeavesNoTrace ==
    (/\ call.op \in {"process_message", "start_practice_session"}
     /\ call.pc \in {"done", "raised"}
     /\ ProviderCalls # <<>>
     /\ ProviderCalls[1].outcome.failed) =>
        /\ Len(ProviderCalls) = 1
        /\ call.pc = "done" => call.result = Apology
        /\ store = initial

----------------------------------------------------------------------------
(***************************************************************************)
(* SpecManage: every use case called one at a time: the conversation use   *)
(* cases of SpecTurn, the user-management use cases with whatever a caller *)
(* can pass, and the audio step of the pronounce command.                  *)
(***************************************************************************)

(* UserManagementUseCase.update_user_level *)

ValueError == "ValueError"

\* ProficiencyLevel(new_level): the member with that value, or ValueError
ProficiencyLevel_accepts_any(new_level) == new_level
ProficiencyLevelOf(new_level) ==
    IF new_level \in ProficiencyLevel THEN new_level ELSE ValueError

\* the progress_data a caller passes: one lesson more, one lesson less, two
\* words less, a pronunciation sample of 2.0, a grammar sample of 0.9
ManageDeltas ==
    {Delta(0, 1, 0, Zero, Zero, NoTopic),
     Delta(0, -1, 0, Zero, Zero, NoTopic),
     Delta(-2, 0, 0, Zero, Zero, NoTopic),
     Delta(0, 0, 0, Dec(2, 0), Zero, NoTopic),
     Delta(0, 0, 0, Zero, Dec(9, 1), NoTopic)}

\* one registered user: new; a Beginner whose scores have reached the
\* Intermediate thresholds; a Beginner one grammar sample short of them; with
\* a full history
ManageStores ==
    {1 :> TurnUser(BEGINNER, 0, Zero, 0, 0),
     1 :> TurnUser(BEGINNER, 10, IntermediateScore, 3, 5),
     1 :> [TurnUser(BEGINNER, 10, IntermediateScore, 3, 5)
              EXCEPT !.progress.grammar_accuracy = Dec(65, 2)],
     1 :> TurnUser(INTERMEDIATE, 12, Dec(5, 1), 1, 20)}

ManageInit ==
    /\ store \in ManageStores
    /\ initial = store
    /\ call = TurnIdle
    /\ io = <<>>
    /\ nCalls = 0
    /\ clock = 21
    /\ user = NoUser
    /\ prev = NoUser
    /\ sums = NoSums
    /\ appended = <<>>
    /\ tasks = <<>>
    /\ nextId = 2

ManageUpdateLevel ==
    /\ TurnBegin
    /\ \E id \in UserIds : \E new_level \in ArgsFor(id, LevelStrings) :
          LET me == TurnCall("update_user_level", id, new_level)
              u == get_by_id(store, id)
              level == ProficiencyLevelOf(new_level)
          IN  /\ io' = <<StoreCall("get_by_id", id)>>
              /\ IF u = NoUser
                 THEN call' = [me EXCEPT !.pc = "done"]
                 ELSE IF level = ValueError
                 THEN call' = [me EXCEPT !.pc = "done", !.u = u]
                 ELSE call' = [me EXCEPT !.pc = "save_return",
                                         !.u = [u EXCEPT !.proficiency_level = level]]
    /\ UNCHANGED <<store, clock, TurnUnused>>

(* UserManagementUseCase.update_user_progress *)

ManageUpdateProgress ==
    /\ TurnBegin
    /\ \E id \in UserIds : \E d \in ArgsFor(id, ManageDeltas) :
          LET me == TurnCall("update_user_progress", id, d)
              u == get_by_id(store, id)
          IN  /\ io' = <<StoreCall("get_by_id", id)>>
              /\ IF u = NoUser
                 THEN call' = [me EXCEPT !.pc = "done"]
                 ELSE call' = [me EXCEPT !.pc = "save_return",
                                         !.u = progress_then_level_up(u, d)]
    /\ UNCHANGED <<store, clock, TurnUnused>>

\* return await self.user_repository.save(user)
ManageSave ==
    /\ call.pc = "save_return"
    /\ store' = save(store, call.u)
    /\ io' = Append(io, StoreCall("save", call.u.id))
    /\ call' = [call EXCEPT !.pc = "done", !.result = call.u]
    /\ UNCHANGED <<initial, nCalls, clock, TurnUnused>>

(* SpeechServiceImpl and PronounceCommand._process_audio_attachment *)

\* a text is the sequence of its whitespace-separated words
NoText == <<>>
NoPath == ""
TempPath == "temp/user_audio.mp3"

\* dict.get(key, default)
Get(d, key, default) == IF key \in DOMAIN d THEN d[key] ELSE default

\* str.lower() of one word
Lower(w) == IF w = "Good" THEN "good" ELSE IF w = "Morning" THEN "morning" ELSE w
LowerSplit(text) == [i \in 1..Len(text) |-> Lower(text[i])]

ExpectedTexts == {NoText, <<"Good", "morning">>}

\* what the attachment is: whether it downloads, whether the recogniser
\* understands it, and what it hears
Recording(downloads, recognised, text) ==
    [downloads |-> downloads, recognised |-> recognised, text |-> text]
Recordings ==
    {Recording(FALSE, FALSE, NoText),
     Recording(TRUE, FALSE, NoText),
     Recording(TRUE, TRUE, <<"good", "morning">>),
     Recording(TRUE, TRUE, <<"good", "night">>)}

\* transcribe_audio: files are the paths that exist
transcribe_audio(audio_file_path, files, recording) ==
    IF audio_file_path \notin files
    THEN [error |-> "Arquivo de audio nao encontrado", text |-> NoText]
    ELSE IF recording.recognised
    THEN [text |-> recording.text, success |-> TRUE]
    ELSE [error |-> "Falha na transcricao", text |-> NoText, success |-> FALSE]

\* correct_words / max_words, exact for the texts of one, two, four or five words
Ratio(c, m) == Dec((c * 100) \div m, 2)

overlap_score(expected_text, transcribed_text) ==
    LET expected_words == LowerSplit(expected_text)
        transcribed_words == LowerSplit(transcribed_text)
        correct_words == Cardinality({i \in 1..Len(transcribed_words) :
                                         InSeq(transcribed_words[i], expected_words)})
        max_words == Max(Len(expected_words), Len(transcribed_words))
    IN  IF max_words > 0 THEN Ratio(correct_words, max_words) ELSE Zero

analyze_pronunciation(audio_file_path, expected_text, files, recording) ==
    LET transcription_result == transcribe_audio(audio_file_path, files, recording)
    IN  IF ~Get(transcription_result, "success", FALSE)
        THEN [error |-> Get(transcription_result, "error", "Falha na transcricao"),
              pronunciation_score |-> Zero]
        ELSE [pronunciation_score |->
                 overlap_score(expected_text, Get(transcription_result, "text", NoText)),
              transcribed_text |-> Get(transcription_result, "text", NoText),
              expected_text |-> expected_text,
              success |-> TRUE]

\* process_user_voice_recording: download to a temporary file, transcribe it,
\* remove it; the pair of what it returns and the files that exist afterwards
process_user_voice_recording(recording) ==
    IF ~recording.downloads
    THEN [result |-> [error |-> "Nao foi possivel baixar o arquivo de audio",
                      success |-> FALSE],
          files |-> {}]
    ELSE [result |-> transcribe_audio(TempPath, {TempPath}, recording),
          files |-> {}]

\* _process_audio_attachment up to the read of update_user_progress
ManagePronounce ==
    /\ TurnBegin
    /\ \E id \in DOMAIN store, expected_text \in ExpectedTexts, recording \in Recordings :
          LET me == TurnCall("pronounce", id,
                             [expected_text |-> expected_text, recording |-> recording])
              voice == process_user_voice_recording(recording)
              result == voice.result
              pronunciation_result ==
                  analyze_pronunciation(Get(result, "file_path", NoPath), expected_text,
                                        voice.files, recording)
              u == get_by_id(store, id)
          IN  IF ~Get(result, "success", FALSE) \/ expected_text = NoText
              THEN /\ io' = <<>>
                   /\ call' = [me EXCEPT !.pc = "done", !.context = result]
              ELSE /\ io' = <<StoreCall("get_by_id", id)>>
                   /\ call' = [me EXCEPT
                         !.pc = "save_return", !.context = pronunciation_result,
                         !.u = progress_then_level_up(u,
                                  [NoDelta EXCEPT !.pronunciation_score =
                                      pronunciation_result.pronunciation_score])]
    /\ UNCHANGED <<store, clock, TurnUnused>>

ManageNext ==
    \/ TurnNext
    \/ ManageUpdateLevel \/ ManageUpdateProgress \/ ManagePronounce \/ ManageSave

SpecManage == ManageInit /\ [][ManageNext]_vars

----------------------------------------------------------------------------
(* Claims about the user-management use cases and the progress they store *)

Vocabulary(u) == u.progress.vocabulary_mastered
Sessions(u) == u.progress.practice_sessions
LastActive(u) == u.progress.last_active

\* the running operation saved its user and returned
Saved == call.pc = "done" /\ Found /\ Len(SaveCalls) = 1

\* C22: update_user_level called for a stored user with a string that is no
\* proficiency tier returns None, saves nothing and leaves the user, in the
\* store and in memory, as it was: a failed override never leaves a partly
\* updated tier.
C22_InvalidTierChangesNothing ==
    (/\ call.op = "update_user_level"
     /\ Found
     /\ call.arg \notin ProficiencyLevel) =>
        /\ call.pc = "done"
        /\ SaveCalls = <<>>
        /\ store = initial
        /\ call.u = Before
        /\ call.result = None

C22_Witness ==
    /\ call.op = "update_user_level"
    /\ call.arg = "expert"
    /\ Found
    /\ nCalls = 2
    /\ call.pc = "done"
    /\ call.result = None
    /\ After.proficiency_level = INTERMEDIATE

\* C23 as claimed: the stored pronunciation_score and grammar_accuracy are in
\* [0, 1] in every reachable state, whatever samples are folded in, those of
\* update_user_progress callers and the provider's grammar_score included.
C23_ScoresInUnitInterval ==
    \A id \in DOMAIN store :
        /\ ScoreGeq(Pron(store[id]), Zero) /\ ScoreGeq(One, Pron(store[id]))
        /\ ScoreGeq(Gram(store[id]), Zero) /\ ScoreGeq(One, Gram(store[id]))

\* C24 as claimed: the stored counters vocabulary_mastered, lessons_completed
\* and practice_sessions are never negative and no operation leaves one of
\* them lower than it found it, whatever delta the caller passes.
C24_CountersNeverDecrease ==
    \A id \in DOMAIN store :
        /\ Vocabulary(store[id]) >= 0 /\ Vocabulary(store[id]) >= Vocabulary(initial[id])
        /\ Lessons(store[id]) >= 0 /\ Lessons(store[id]) >= Lessons(initial[id])
        /\ Sessions(store[id]) >= 0 /\ Sessions(store[id]) >= Sessions(initial[id])

\* C25 as claimed: update_user_progress, start_practice_session and
\* evaluate_user_response call level_up after they accumulated progress and
\* before they save, so when the progress one of them saves has come to
\* satisfy should_level_up for the tier the operation found, the user is
\* saved one tier up.
C25_LevelUpAfterEveryAccumulation ==
    (/\ call.op \in {"update_user_progress", "start_practice_session",
                     "evaluate_user_response"}
     /\ Saved
     /\ ~should_level_up(Before)
     /\ should_level_up([After EXCEPT !.proficiency_level = Before.proficiency_level])) =>
        After.proficiency_level =
            level_up([After EXCEPT !.proficiency_level = Before.proficiency_level])[1]
                .proficiency_level

\* C26: a process_message or start_practice_session call that returned for a
\* stored user leaves the persisted last_interaction at the time the call
\* stamped its first history entry: set, later than the value the call found
\* and not later than now.  No operation of any kind ever lowers it.
C26_LastInteractionIsOperationTime ==
    /\ \A id \in DOMAIN store : store[id].last_interaction >= initial[id].last_interaction
    /\ (call.op \in {"process_message", "start_practice_session"} /\ Saved) =>
          /\ After.last_interaction # NoTime
          /\ After.last_interaction > Before.last_interaction
          /\ After.last_interaction < clock
          /\ After.last_interaction =
                IF call.op = "process_message"
                THEN History(After)[Len(History(After)) - 1].timestamp
                ELSE History(After)[1].timestamp

C26_Witness ==
    /\ call.op = "process_message"
    /\ Saved
    /\ nCalls = 2
    /\ Before.last_interaction >= 21
    /\ After.last_interaction > Before.last_interaction

\* C27 as claimed: update_user_progress and the grammar fold of
\* evaluate_user_response leave the persisted progress.last_active at the
\* time of the call, later than the value they found.
C27_ProgressRefreshesLastActive ==
    (/\ call.op \in {"update_user_progress", "evaluate_user_response"}
     /\ Saved) =>
        /\ LastActive(After) > LastActive(Before)
        /\ LastActive(After) <= clock

\* C30 as claimed: when the pronounce command is given an audio attachment
\* that transcribes and an expected text that shares a word with it, the
\* word-overlap score of the two is folded into the stored score as
\* stored * 0.7 + score * 0.3 and the user is saved.
C30_PronounceFoldsOverlapScore ==
    (/\ call.op = "pronounce"
     /\ call.pc = "done"
     /\ call.arg.recording.downloads
     /\ call.arg.recording.recognised
     /\ call.arg.expected_text # NoText
     /\ ScoreGt(overlap_score(call.arg.expected_text, call.arg.recording.text), Zero)) =>
        /\ Len(SaveCalls) = 1
        /\ Pron(After) =
              WeightedAverage(Pron(Before),
                 overlap_score(call.arg.expected_text, call.arg.recording.text))

----------------------------------------------------------------------------
(* Claims about concurrent tasks on one user *)

\* the tasks that ran update_user_progress on user id and returned
ProgressTasksDone(id) ==
    {t \in Tasks : /\ tasks[t].pc = "done"
                   /\ tasks[t].op = "update_user_progress"
                   /\ tasks[t].user_id = id}

\* C28: save writes the whole in-memory copy of the task, so when the only
\* tasks that ran are update_user_progress calls for one stored user and all
\* of them have returned their saved user, the persisted user is exactly the
\* copy one of them returned: nothing is merged.  When each of two such tasks
\* read the user before the other saved, both return successfully and the
\* persisted user lacks the increment of one of them (the lost update).
C28_LastSaveWins ==
    \A id \in DOMAIN initial :
        (/\ ProgressTasksDone(id) # {}
         /\ \A t \in Tasks : tasks[t].pc = "idle" \/ t \in ProgressTasksDone(id)) =>
            \E t \in ProgressTasksDone(id) : store[id] = tasks[t].result

C28_Witness ==
    /\ 1 \in DOMAIN initial
    /\ ProgressTasksDone(1) = {1, 2}
    /\ tasks[1].arg.lessons_completed = 1
    /\ tasks[2].arg.lessons_completed = 1
    /\ Lessons(tasks[1].result) = Lessons(initial[1]) + 1
    /\ Lessons(tasks[2].result) = Lessons(initial[1]) + 1
    /\ Lessons(store[1]) = Lessons(initial[1]) + 1

----------------------------------------------------------------------------
(***************************************************************************)
(* SpecSession: one start_practice_session call and the process_message    *)
(* calls that follow it, for one user, each call run to its end.           *)
(***************************************************************************)

\* the process_message calls that may return after the session has started
MaxMessages == 11

SessionStores ==
    {1 :> TurnUser(BEGINNER, 0, Zero, 0, 0),
     1 :> TurnUser(INTERMEDIATE, 12, Dec(5, 1), 1, 20)}

SessionInit ==
    /\ store \in SessionStores
    /\ initial = store
    /\ call = TurnIdle
    /\ io = <<>>
    /\ nCalls = 0
    /\ clock = 21
    /\ user = NoUser
    /\ prev = NoUser
    /\ sums = NoSums
    /\ appended = <<>>
    /\ tasks = <<>>
    /\ nextId = 2

\* start_practice_session(1, topic), from the lookup to the return; a call whose
\* provider raises saves nothing and starts no session (SpecTurn has it)
SessionStart ==
    /\ call.op = "none"
    /\ \E topic \in SessionTopics, outcome \in ResponseOutcomes :
          LET me == TurnCall("start_practice_session", 1, topic)
              u == get_by_id(store, 1)
              v == reset_and_prompt(u, topic, clock)
              h == HybridAIService("generate_response",
                      [messages |-> practice_messages(u, topic),
                       user_level |-> v.proficiency_level], outcome)
          IN  /\ outcome.kind = "return"
              /\ io' = <<StoreCall("get_by_id", 1)>> \o h.calls \o <<StoreCall("save", 1)>>
              /\ call' = [me EXCEPT !.pc = "done", !.context = practice_messages(u, topic),
                                    !.result = h.outcome.value.text]
              /\ store' = save(store,
                             practice_progress(
                                add_to_conversation_history(
                                   v, "assistant", h.outcome.value.text, clock + 1)))
              /\ clock' = clock + 2
    /\ UNCHANGED <<initial, nCalls, TurnUnused>>

\* process_message(1, text), from the lookup to the return or to the
\* exception of the provider
SessionMessage ==
    /\ call.op # "none"
    /\ nCalls < MaxMessages
    /\ \E text \in Texts, outcome \in ResponseOutcomes :
          LET me == TurnCall("process_message", 1, text)
              u == get_by_id(store, 1)
              v == update_last_interaction(
                      add_to_conversation_history(u, "user", text, clock), clock)
              h == HybridAIService("generate_response",
                      [messages |-> _prepare_context_for_ai(v),
                       user_level |-> v.proficiency_level], outcome)
          IN  IF h.outcome.kind = "raise"
              THEN /\ io' = <<StoreCall("get_by_id", 1)>> \o h.calls
                   /\ call' = [me EXCEPT !.pc = "raised", !.u = v,
                                         !.context = _prepare_context_for_ai(v),
                                         !.result = h.outcome.value]
                   /\ UNCHANGED <<store, nCalls, clock>>
              ELSE /\ io' = <<StoreCall("get_by_id", 1)>> \o h.calls \o
                             <<StoreCall("save", 1)>>
                   /\ call' = [me EXCEPT !.pc = "done", !.u = v,
                                         !.context = _prepare_context_for_ai(v),
                                         !.result = h.outcome.value.text]
                   /\ store' = save(store,
                                  add_to_conversation_history(
                                     v, "assistant", h.outcome.value.text, clock + 1))
                   /\ nCalls' = nCalls + 1
                   /\ clock' = clock + 2
    /\ UNCHANGED <<initial, TurnUnused>>

SessionNext == SessionStart \/ SessionMessage

SpecSession == SessionInit /\ [][SessionNext]_vars

\* the practice system prompt that start_practice_session stored is in h
HoldsPracticePrompt(h) ==
    \E i \in 1..Len(h) : h[i].role = "system" /\ h[i].content[1] = "initial_instructions"

\* the context without the tier prompt that _prepare_context_for_ai puts first
ContextHistory == SubSeq(call.context, 2, Len(call.context))

\* the number of this process_message call among those after the session:
\* the calls that returned, and this one if it did not
CallNumber == IF call.pc = "raised" THEN nCalls + 1 ELSE nCalls

\* C29: the practice system prompt that start_practice_session stores at the
\* head of the history is evicted like any other entry.  In the
\* process_message calls that follow one start_practice_session, the entry is
\* in the context given to the provider in calls 1 to 9 and in none from the
\* 10th on; it is at the head of the persisted history up to the return of
\* call 9 and in no persisted history from the return of call 10 on.
C29_PracticePromptEvictedAtTenthCall ==
    /\ call.op = "start_practice_session" =>
          /\ Len(History(store[1])) = 2
          /\ HoldsPracticePrompt(<<History(store[1])[1]>>)
    /\ call.op = "process_message" =>
          /\ HoldsPracticePrompt(ContextHistory) <=> CallNumber <= 9
          /\ HoldsPracticePrompt(History(store[1])) <=> nCalls <= 9
          /\ nCalls <= 9 => HoldsPracticePrompt(<<History(store[1])[1]>>)

C29_Witness ==
    /\ call.op = "process_message"
    /\ call.pc = "done"
    /\ nCalls = 10
    /\ Len(call.context) = 21
    /\ ~HoldsPracticePrompt(ContextHistory)
    /\ ~HoldsPracticePrompt(History(store[1]))
    /\ Len(History(store[1])) = 20

----------------------------------------------------------------------------
(***************************************************************************)
(* SpecEvent: the Discord event handlers (a message directed at the bot,   *)
(* a text command, the learn slash command), one event at a time, over a   *)
(* store and a provider whose calls can fail.  An exception raised inside  *)
(* a handler's try block ends the event with the handler's error message;  *)
(* one raised outside it leaves the handler.                               *)
(***************************************************************************)

OperationalError == [exception |-> "OperationalError"]
LearnError == <<"Desculpe, ocorreu um erro ao iniciar a sessao">>
HelpMessage == <<"Comandos disponiveis">>
ProgressUnavailable == <<"Nao foi possivel recuperar seu progresso">>
DefaultTopic == "ingles geral"

Handlers == {"bot_message", "text_command", "learn_command"}
CommandsOf(handler) ==
    IF handler = "text_command" THEN {"help", "learn", "progress"}
    ELSE IF handler = "learn_command" THEN {"learn"}
    ELSE {"none"}

EventStores == {<<>>, 1 :> TurnUser(BEGINNER, 0, Zero, 0, 0)}

EventIdle ==
    [op |-> "none", command |-> "none", pc |-> "idle", discord_id |-> "none",
     user_id |-> UnknownId, arg |-> None, u |-> NoUser, result |-> None]

EventInit ==
    /\ store \in EventStores
    /\ initial = store
    /\ call = EventIdle
    /\ io = <<>>
    /\ nCalls = 0
    /\ clock = 21
    /\ nextId = 2
    /\ user = NoUser
    /\ prev = NoUser
    /\ sums = NoSums
    /\ appended = <<>>
    /\ tasks = <<>>

EventUnused == <<user, prev, sums, appended, tasks>>

\* the steps of a handler that are inside its try block
InTry(handler, pc) ==
    \/ handler = "bot_message"
    \/ pc \in {"sps_get", "sps_ai", "sps_save"}

\* an exception at step pc: caught by the handler's except branch, or not
Raise(me, pc, exception) ==
    IF InTry(me.op, pc)
    THEN [me EXCEPT !.pc = "caught",
                    !.result = IF me.op = "bot_message" THEN HandlerError ELSE LearnError]
    ELSE [me EXCEPT !.pc = "escaped", !.result = exception]

\* the handler holds its user: what it does next
WithUser(me, u) ==
    IF me.op = "bot_message" THEN [me EXCEPT !.pc = "pm_get", !.user_id = u.id]
    ELSE IF me.command = "learn" THEN [me EXCEPT !.pc = "sps_get", !.user_id = u.id]
    ELSE IF me.command = "progress" THEN [me EXCEPT !.pc = "progress_get", !.user_id = u.id]
    ELSE [me EXCEPT !.pc = "replied", !.user_id = u.id, !.result = HelpMessage]

RepositoryCall(name, arg, fails) ==
    [target |-> "user_repository", call |-> name, arg |-> arg, fails |-> fails]

\* an event arrives; user = await self.user_management.get_user_by_discord_id(...)
EventArrive ==
    /\ call.pc \in {"idle", "replied", "caught", "escaped"}
    /\ nCalls < MaxCalls
    /\ nCalls' = nCalls + 1
    /\ initial' = store
    /\ \E handler \in Handlers, d \in DiscordIds, fails \in BOOLEAN :
       \E command \in CommandsOf(handler) :
          LET me == [EventIdle EXCEPT
                        !.op = handler, !.command = command, !.pc = "lookup",
                        !.discord_id = d,
                        !.arg = IF handler = "bot_message" THEN <<"hi">>
                                ELSE IF handler = "learn_command" THEN "verbs"
                                ELSE DefaultTopic]
              u == get_by_discord_id(store, d)
          IN  /\ io' = <<RepositoryCall("get_by_discord_id", d, fails)>>
              /\ call' = IF fails THEN Raise(me, "lookup", OperationalError)
                         ELSE IF u = NoUser THEN [me EXCEPT !.pc = "register_get"]
                         ELSE WithUser(me, u)
    /\ UNCHANGED <<store, clock, nextId, EventUnused>>

\* register_user: existing_user = await get_by_discord_id(discord_id)
EventRegisterGet ==
    /\ call.pc = "register_get"
    /\ \E fails \in BOOLEAN :
          LET u == get_by_discord_id(store, call.discord_id)
          IN  /\ io' = Append(io, RepositoryCall("get_by_discord_id", call.discord_id, fails))
              /\ IF fails
                 THEN /\ call' = Raise(call, "register_get", OperationalError)
                      /\ UNCHANGED nextId
                 ELSE IF u # NoUser
                 THEN /\ call' = WithUser(call, u)
                      /\ UNCHANGED nextId
                 ELSE /\ call' = [call EXCEPT
                            !.pc = "register_save",
                            !.u = User(nextId, call.discord_id, DisplayName(call.discord_id),
                                       BEGINNER, UserProgress(clock), clock)]
                      /\ nextId' = nextId + 1
    /\ UNCHANGED <<store, initial, nCalls, clock, EventUnused>>

\* register_user: return await self.user_repository.save(new_user)
EventRegisterSave ==
    /\ call.pc = "register_save"
    /\ \E fails \in BOOLEAN :
          /\ io' = Append(io, RepositoryCall("save", call.u.id, fails))
          /\ IF fails
             THEN /\ call' = Raise(call, "register_save", OperationalError)
                  /\ UNCHANGED store
             ELSE /\ store' = save(store, call.u)
                  /\ call' = WithUser(call, call.u)
    /\ UNCHANGED <<initial, nCalls, clock, nextId, EventUnused>>

\* the use case the handler awaits: user = await self.user_repository.get_by_id(user_id)
EventUseCaseGet ==
    /\ call.pc \in {"pm_get", "sps_get", "progress_get"}
    /\ \E fails \in BOOLEAN :
          LET u == get_by_id(store, call.user_id)
          IN  /\ io' = Append(io, RepositoryCall("get_by_id", call.user_id, fails))
              /\ IF fails
                 THEN /\ call' = Raise(call, call.pc, OperationalError)
                      /\ UNCHANGED clock
                 ELSE IF call.pc = "progress_get"
                 THEN /\ call' = [call EXCEPT
                            !.pc = "replied",
                            !.result = IF u = NoUser THEN ProgressUnavailable
                                       ELSE <<"progress", u.proficiency_level>>]
                      /\ UNCHANGED clock
                 ELSE IF u = NoUser
                 THEN /\ call' = [call EXCEPT !.pc = "replied", !.result = NotRegistered]
                      /\ UNCHANGED clock
                 ELSE IF call.pc = "pm_get"
                 THEN /\ call' = [call EXCEPT
                            !.pc = "pm_ai",
                            !.u = update_last_interaction(
                                     add_to_conversation_history(u, "user", call.arg, clock),
                                     clock)]
                      /\ clock' = clock + 1
                 ELSE /\ call' = [call EXCEPT !.pc = "sps_ai",
                                              !.u = reset_and_prompt(u, call.arg, clock)]
                      /\ clock' = clock + 1
    /\ UNCHANGED <<store, initial, nCalls, nextId, EventUnused>>

\* await self.ai_service.generate_response(...), then the reply is appended
EventProvider ==
    /\ call.pc \in {"pm_ai", "sps_ai"}
    /\ \E outcome \in ResponseOutcomes :
          LET h == HybridAIService("generate_response",
                      [messages |-> IF call.pc = "pm_ai"
                                    THEN _prepare_context_for_ai(call.u)
                                    ELSE practice_messages(call.u, call.arg),
                       user_level |-> call.u.proficiency_level], outcome)
              v == add_to_conversation_history(call.u, "assistant", h.outcome.value.text,
                                               clock)
          IN  /\ io' = io \o h.calls
              /\ IF h.outcome.kind = "raise"
                 THEN /\ call' = Raise(call, call.pc, h.outcome.value)
                      /\ UNCHANGED clock
                 ELSE /\ call' = [call EXCEPT
                            !.pc = IF call.pc = "pm_ai" THEN "pm_save" ELSE "sps_save",
                            !.result = h.outcome.value.text,
                            !.u = IF call.pc = "pm_ai" THEN v ELSE practice_progress(v)]
                      /\ clock' = clock + 1
    /\ UNCHANGED <<store, initial, nCalls, nextId, EventUnused>>

\* await self.user_repository.save(user); the handler sends the reply
EventSave ==
    /\ call.pc \in {"pm_save", "sps_save"}
    /\ \E fails \in BOOLEAN :
          /\ io' = Append(io, RepositoryCall("save", call.u.id, fails))
          /\ IF fails
             THEN /\ call' = Raise(call, call.pc, OperationalError)
                  /\ UNCHANGED store
             ELSE /\ store' = save(store, call.u)
                  /\ call' = [call EXCEPT !.pc = "replied"]
    /\ UNCHANGED <<initial, nCalls, clock, nextId, EventUnused>>

EventNext ==
    \/ EventArrive \/ EventRegisterGet \/ EventRegisterSave
    \/ EventUseCaseGet \/ EventProvider \/ EventSave

SpecEvent == EventInit /\ [][EventNext]_vars

\* C21 as claimed: no failure of the user store or of an AI provider during
\* the handling of a directed message, a text command or a learn command
\* leaves the handler: at the lookup, the lazy registration, the provider call
\* or the save, the failure is caught and the event ends with the handler's
\* error message.
C21_NoFailureEscapes ==
    /\ call.pc # "escaped"
    /\ (/\ call.pc \in {"replied", "caught"}
        /\ \E i \in 1..Len(io) :
              IF io[i].target = "user_repository" THEN io[i].fails
              ELSE io[i].outcome.kind = "raise") =>
          /\ call.pc = "caught"
          /\ call.result \in {HandlerError, LearnError}

============================================================================
